---- MODULE Spec2Model ----
(***************************************************************************)
(* Model of the kidsbook-factory page compositing engine                   *)
(* (src/generate_page.py): colour extraction, the seeded choice of the     *)
(* decorative edge, text wrapping, the per-page composer and the batch run *)
(* of main.                                                                *)
(***************************************************************************)
EXTENDS Integers, Sequences, FiniteSets, TLC

(***************************************************************************)
(* Bounds of the model.                                                    *)
(***************************************************************************)
MaxPages == 3
MaxRenders == 2
MaxPixels == 3
MaxNumColors == 2
MaxTextLen == 5
MaxSide == 4
MaxMaskWidth == 11
MaxSourceSide == 8
MaxWords == 15
MaxCalls == 2
MaxRetries == 3
MaxRuns == 2
MaxStoryLength == 100

(***************************************************************************)
(* Configuration: src/variables.py and the constants of generate_page.py.  *)
(***************************************************************************)
DPI == 300
PAGE_WIDTH == (625 * DPI) \div 100
PAGE_HEIGHT == (925 * DPI) \div 100
HALF_HEIGHT == PAGE_HEIGHT \div 2
WAVE_HEIGHT == 25
DEFAULT_WAVE_COUNT == 8
EDGE_TYPES == <<"wave", "scallop", "zigzag">>
COLOR_QUANTIZE_LEVELS == 8
MIN_BRIGHTNESS == 60
\* MIN_SATURATION = 0.25, kept as the exact fraction 1/4
MIN_SATURATION == [num |-> 1, den |-> 4]
DEFAULT_LIGHT_COLOR == <<255, 250, 245>>
DEFAULT_DARK_COLOR == <<0, 0, 0>>
DEFAULT_NUM_COLORS == 50

VARIABLES
    \* the batch run of main
    pc,          \* position of main: start, cover, story, end, done, aborted
    storyDoc,    \* story.json: [exists, pages]
    pageIdx,     \* loop variable i of main's story loop
    written,     \* bitmaps saved under pages/, in the order of the save calls
    lastPage,    \* what the latest call of create_story_page_with_image_and_text did
    rng,         \* hidden state of the module-level generator of `random`
    \* repeated renders in any order
    seenEdge, seenWave, renders,
    \* two pages rendered concurrently
    tpc, tpage, tedge, twave,
    \* colour extraction
    cfile, cnum, cres,
    \* text wrapping
    wtext, wmax, wlines,
    \* one call of create_radial_gradient_mask, of create_decorative_mask and
    \* of _resize_and_crop_image: arguments and result
    grad, deco, crop,
    \* create_pdf.py: the listing of pages/ and the two documents
    pdf,
    \* generate_images.py followed by generate_page.py: paths written and read
    pipe,
    \* the page file that page.save has opened and not yet closed
    saving,
    \* one page rendered twice, with two washes
    washPair,
    \* one call of draw_centered_text: arguments, wrapped lines and rows drawn
    tdraw,
    \* calls of create_decorative_mask at page size with the same arguments:
    \* the arguments and the mask each call returned
    edgeMask,
    \* one call of generate_image: the two retry loops of _generate_single_image
    retry,
    \* the bitmaps one run of generate_page.py names for a story, as create_pdf.py orders them
    book

vars == <<pc, storyDoc, pageIdx, written, lastPage, rng, seenEdge, seenWave, renders,
          tpc, tpage, tedge, twave, cfile, cnum, cres, wtext, wmax, wlines,
          grad, deco, crop, pdf, pipe, saving, washPair, tdraw,
          edgeMask,
          retry,
          book>>

mainVars == <<pc, storyDoc, pageIdx, written>>
seenVars == <<seenEdge, seenWave, renders>>
parVars == <<tpc, tpage, tedge, twave>>
colorVars == <<cfile, cnum, cres>>
wrapVars == <<wtext, wmax, wlines>>
lastVars == <<tdraw, edgeMask, retry, book>>
laterVars == <<grad, deco, crop, pdf, pipe, saving, washPair, lastVars>>

Max2(a, b) == IF a >= b THEN a ELSE b
Min2(a, b) == IF a <= b THEN a ELSE b
Max3(c) == Max2(c[1], Max2(c[2], c[3]))
Min3(c) == Min2(c[1], Min2(c[2], c[3]))

(***************************************************************************)
(* Files.  A path names no file (absent), a file that PIL cannot decode    *)
(* (corrupt), or an image; an image is given by its pixels after the       *)
(* resize of _extract_quantized_colors and by whether its size already is  *)
(* the page size.                                                          *)
(***************************************************************************)
AbsentFile == [status |-> "absent", pixels |-> <<>>, page_sized |-> FALSE]
CorruptFile == [status |-> "corrupt", pixels |-> <<>>, page_sized |-> FALSE]
ImageFile(px, sized) == [status |-> "ok", pixels |-> px, page_sized |-> sized]

\* os.path.exists
PathExists(f) == f.status # "absent"
\* Image.open(path).convert(...): raises for a missing or undecodable file
OpenRaises(f) == f.status # "ok"

(***************************************************************************)
(* The generator behind random.seed / random.choice / random.randint.      *)
(* CPython's generator is the Mersenne Twister; MTTop4[s + 1][k] is the    *)
(* top four bits of its k-th 32-bit output after random.seed(s).  The      *)
(* state is the seed and the number of outputs consumed since.             *)
(***************************************************************************)
MTTop4 ==
    << <<13, 6, 12, 14, 6, 0, 4, 15, 8, 7, 6, 14, 12, 13, 4, 15>>,
       <<2, 9, 13, 12, 12, 1, 4, 1, 7, 12, 7, 7, 10, 6, 12, 3>>,
       <<15, 13, 15, 13, 0, 1, 1, 5, 13, 2, 11, 12, 10, 13, 4, 4>>,
       <<3, 9, 8, 2, 5, 14, 9, 7, 10, 9, 1, 9, 0, 14, 13, 7>>,
       <<3, 4, 1, 11, 6, 7, 2, 1, 1, 0, 6, 8, 14, 4, 12, 15>>,
       <<9, 4, 11, 5, 12, 11, 15, 13, 11, 10, 14, 8, 0, 13, 7, 12>>,
       <<12, 9, 13, 1, 7, 12, 4, 0, 0, 2, 10, 9, 7, 15, 12, 11>>,
       <<5, 15, 2, 6, 10, 0, 1, 13, 8, 1, 5, 9, 0, 14, 8, 3>>,
       <<3, 5, 15, 6, 2, 3, 11, 0, 1, 2, 3, 12, 15, 8, 3, 6>> >>

\* the table is cyclic in the model only; no run of the model reads past it
MTWord(s) == MTTop4[(s.seed % Len(MTTop4)) + 1][(s.pos % 16) + 1]

\* the seed call left out: the generator stays as the last render left it
RandomSeed_Skipped(n) == rng

\* random.seed(n)
RandomSeed(n) == [seed |-> n, pos |-> 0]

BitLength(n) == IF n >= 8 THEN 4 ELSE IF n >= 4 THEN 3 ELSE IF n >= 2 THEN 2 ELSE 1

\* getrandbits(k) for k <= 4: the top k bits of the next output
GetRandBits(s, k) ==
    [rng |-> [seed |-> s.seed, pos |-> s.pos + 1],
     value |-> MTWord(s) \div (2 ^ (4 - k))]

\* Random._randbelow(n): draw bit_length(n) bits until the value is below n
RECURSIVE RandBelow(_, _)
RandBelow(s, n) ==
    LET d == GetRandBits(s, BitLength(n))
    IN  IF d.value < n THEN d ELSE RandBelow(d.rng, n)

\* random.choice(seq)
RandomChoice(s, seq) ==
    LET d == RandBelow(s, Len(seq))
    IN  [rng |-> d.rng, value |-> seq[d.value + 1]]

\* random.randint(a, b)
RandomRandint(s, a, b) ==
    LET d == RandBelow(s, b - a + 1)
    IN  [rng |-> d.rng, value |-> a + d.value]

\* generator states the process can be in before the first random.seed call
InitialRngStates == {[seed |-> 0, pos |-> 0], [seed |-> 7, pos |-> 2]}

(***************************************************************************)
(* Colour extraction: _extract_quantized_colors and the derived shades.    *)
(* Scores are kept as exact fractions [num, den].                          *)
(***************************************************************************)
Frac(n, d) == [num |-> n, den |-> d]
FracLess(a, b) == a.num * b.den < b.num * a.den

Quantize(v) == (v \div COLOR_QUANTIZE_LEVELS) * COLOR_QUANTIZE_LEVELS
QuantizePixel(p) == <<Quantize(p[1]), Quantize(p[2]), Quantize(p[3])>>
QuantizedPixels(pixels) == [i \in 1..Len(pixels) |-> QuantizePixel(pixels[i])]

SeqContains(seq, x) == \E i \in 1..Len(seq) : seq[i] = x

\* the keys of Counter(quantized), in the order of first occurrence
RECURSIVE CounterKeys(_)
CounterKeys(seq) ==
    IF seq = <<>> THEN <<>>
    ELSE LET front == SubSeq(seq, 1, Len(seq) - 1)
             keys == CounterKeys(front)
         IN  IF SeqContains(keys, seq[Len(seq)]) THEN keys
             ELSE Append(keys, seq[Len(seq)])

CountOf(seq, c) == Cardinality({i \in 1..Len(seq) : seq[i] = c})

\* items is sorted by key, descending; x goes after every item whose key is
\* not smaller (sorted(..., reverse=True) and heapq.nlargest keep the
\* original order of equal keys)
RECURSIVE InsertDesc(_, _)
InsertDesc(items, x) ==
    IF items = <<>> THEN <<x>>
    ELSE IF FracLess(items[1].key, x.key) THEN <<x>> \o items
         ELSE <<items[1]>> \o InsertDesc(Tail(items), x)

RECURSIVE StableSortDesc(_)
StableSortDesc(items) ==
    IF items = <<>> THEN <<>>
    ELSE InsertDesc(StableSortDesc(SubSeq(items, 1, Len(items) - 1)),
                    items[Len(items)])

Take(seq, n) == SubSeq(seq, 1, Min2(n, Len(seq)))

\* Counter(quantized).most_common(num_colors)
MostCommon(quantized, num_colors) ==
    LET keys == CounterKeys(quantized)
        items == [i \in 1..Len(keys) |->
                    [color |-> keys[i], key |-> Frac(CountOf(quantized, keys[i]), 1)]]
    IN  Take(StableSortDesc(items), num_colors)

\* a / b of Python: ZeroDivisionError when b = 0
Divide(a, b) == [fault |-> (b = 0), value |-> Frac(a, IF b = 0 THEN 1 ELSE b)]

\* saturation = (max_c - min_c) / max_c if max_c > 0 else 0
Saturation(color) ==
    IF Max3(color) > 0 THEN Divide(Max3(color) - Min3(color), Max3(color))
    ELSE [fault |-> FALSE, value |-> Frac(0, 1)]

\* the brightness test of the scoring loop: colours it rejects are skipped
\* before their saturation is computed
BrightEnough(color) == ~(Max3(color) < MIN_BRIGHTNESS)

Vibrant(color) ==
    /\ BrightEnough(color)
    /\ ~FracLess(Saturation(color).value, MIN_SATURATION)

\* the score without its saturation term
VibrancyScore_BrightnessOnly(color) == Frac(Max3(color), 1)

\* score = (saturation * 300) + max_c
VibrancyScore(color) ==
    LET s == Saturation(color).value
    IN  Frac(s.num * 300 + Max3(color) * s.den, s.den)

\* the scoring loop and the fallback loop, before the final sort
ValidColors(common) ==
    LET isVibrant(item) == Vibrant(item.color)
        isBright(item) == Max3(item.color) > 50
        vib == SelectSeq(common, isVibrant)
        fb == SelectSeq(common, isBright)
    IN  IF vib # <<>>
        THEN [i \in 1..Len(vib) |->
                [color |-> vib[i].color, key |-> VibrancyScore(vib[i].color)]]
        ELSE [i \in 1..Len(fb) |->
                [color |-> fb[i].color, key |-> Frac(Max3(fb[i].color), 1)]]

\* _extract_quantized_colors(image_path, num_colors): raises when the file
\* cannot be opened or a division by zero is executed
ExtractQuantizedColors(file, num_colors) ==
    LET common == MostCommon(QuantizedPixels(file.pixels), num_colors)
        divFault == \E i \in 1..Len(common) :
                       BrightEnough(common[i].color) /\ Saturation(common[i].color).fault
    IN  IF OpenRaises(file) THEN [raised |-> TRUE, div_fault |-> FALSE, colors |-> <<>>]
        ELSE IF divFault THEN [raised |-> TRUE, div_fault |-> TRUE, colors |-> <<>>]
        ELSE [raised |-> FALSE, div_fault |-> FALSE,
              colors |-> StableSortDesc(ValidColors(common))]

DarkShade(c) == <<Max2(0, (c[1] * 5) \div 10), Max2(0, (c[2] * 6) \div 10),
                  Max2(0, (c[3] * 7) \div 10)>>

LightShade(c) ==
    <<Min2(255, (25500 - (255 - c[1]) * 15) \div 100),
      Min2(255, (25500 - (255 - c[2]) * 12) \div 100),
      Min2(255, (25500 - (255 - c[3]) * 10) \div 100)>>

\* get_dominant_color: the try/except maps every exception to the default
GetDominantColor(file, num_colors) ==
    LET e == ExtractQuantizedColors(file, num_colors)
    IN  IF e.raised
        THEN [outcome |-> "return", value |-> DEFAULT_DARK_COLOR, div_fault |-> e.div_fault]
        ELSE IF e.colors = <<>>
        THEN [outcome |-> "return", value |-> DEFAULT_DARK_COLOR, div_fault |-> FALSE]
        ELSE [outcome |-> "return", value |-> DarkShade(e.colors[1].color),
              div_fault |-> FALSE]

\* get_light_color without its try/except
GetLightColor_NoExcept(file, num_colors) ==
    LET e == ExtractQuantizedColors(file, num_colors)
    IN  IF e.raised
        THEN [outcome |-> "raise", value |-> <<>>, div_fault |-> e.div_fault]
        ELSE IF e.colors = <<>>
        THEN [outcome |-> "return", value |-> DEFAULT_LIGHT_COLOR, div_fault |-> FALSE]
        ELSE [outcome |-> "return", value |-> LightShade(e.colors[1].color),
              div_fault |-> FALSE]

\* get_light_color
GetLightColor(file, num_colors) ==
    LET e == ExtractQuantizedColors(file, num_colors)
    IN  IF e.raised
        THEN [outcome |-> "return", value |-> DEFAULT_LIGHT_COLOR, div_fault |-> e.div_fault]
        ELSE IF e.colors = <<>>
        THEN [outcome |-> "return", value |-> DEFAULT_LIGHT_COLOR, div_fault |-> FALSE]
        ELSE [outcome |-> "return", value |-> LightShade(e.colors[1].color),
              div_fault |-> FALSE]

DEFAULT_BRIGHT_COLOR == <<255, 255, 255>>

\* sum(x[0])
ChannelSum(color) == color[1] + color[2] + color[3]

\* the colour of valid_colors[0]
Brightest_TopScoring(valid_colors) == valid_colors[1].color

\* max(valid_colors, key=lambda x: sum(x[0])): the first item of the
\* largest channel sum
Brightest(valid_colors) ==
    LET i == CHOOSE k \in 1..Len(valid_colors) :
                 /\ \A j \in 1..Len(valid_colors) :
                        ChannelSum(valid_colors[j].color)
                            <= ChannelSum(valid_colors[k].color)
                 /\ \A j \in 1..(k - 1) :
                        ChannelSum(valid_colors[j].color)
                            < ChannelSum(valid_colors[k].color)
    IN  valid_colors[i].color

\* the channel values v (of quantized colours) for which the double
\* v * (255 / v) is below 255
FloatShortfalls == {200, 232}

\* min(255, int(v * factor)) with factor = min(255 / max_val, 1.3), for
\* the channels of a quantized colour
BoostChannel(v, max_val) ==
    IF 2550 <= 13 * max_val
    THEN IF v = max_val /\ v \in FloatShortfalls THEN 254
         ELSE Min2(255, (v * 255) \div max_val)
    ELSE Min2(255, (v * 13) \div 10)

\* get_brightest_color
GetBrightestColor(file, num_colors) ==
    LET e == ExtractQuantizedColors(file, num_colors)
    IN  IF e.raised
        THEN [outcome |-> "return", value |-> DEFAULT_BRIGHT_COLOR,
              div_fault |-> e.div_fault]
        ELSE IF e.colors = <<>>
        THEN [outcome |-> "return", value |-> DEFAULT_BRIGHT_COLOR, div_fault |-> FALSE]
        ELSE LET c == Brightest(e.colors)
                 max_val == Max3(c)
             IN  IF max_val > 0
                 THEN [outcome |-> "return",
                       value |-> <<BoostChannel(c[1], max_val),
                                   BoostChannel(c[2], max_val),
                                   BoostChannel(c[3], max_val)>>,
                       div_fault |-> FALSE]
                 ELSE [outcome |-> "return", value |-> DEFAULT_BRIGHT_COLOR,
                       div_fault |-> FALSE]

(***************************************************************************)
(* The page composer.                                                      *)
(***************************************************************************)
\* the parity test inverted
IsOddPage_EvenTest(page_number) == page_number % 2 = 0

\* is_odd_page = page_number % 2 == 1
IsOddPage(page_number) == page_number % 2 = 1

\* The divisors that each edge function evaluates.
\* _draw_wave_edge: x / width, for x in range(width)
WaveEdgeDivisors(width, wave_count) ==
    IF width >= 1 THEN {width} ELSE {}

\* _draw_scallop_edge: width // wave_count, scallop_width // 2 and, for x in
\* range(width), x // scallop_width
ScallopEdgeDivisors(width, wave_count) ==
    LET scallop_width == width \div wave_count
    IN  {wave_count, 2} \cup (IF width >= 1 THEN {scallop_width} ELSE {})

\* _draw_zigzag_edge: width // (wave_count * 2) and (x - x1) / tooth_width,
\* the latter only if tooth_width > 0
ZigzagEdgeDivisors(width, wave_count) ==
    LET tooth_width == width \div (wave_count * 2)
    IN  {wave_count * 2} \cup (IF tooth_width > 0 THEN {tooth_width} ELSE {})

\* edge_functions.get(edge_type, _draw_wave_edge)
EdgeDivisors(edge_type, width, wave_count) ==
    CASE edge_type = "scallop" -> ScallopEdgeDivisors(width, wave_count)
      [] edge_type = "zigzag" -> ZigzagEdgeDivisors(width, wave_count)
      [] OTHER -> WaveEdgeDivisors(width, wave_count)

\* create_decorative_mask with the wave count drawn for either side
CreateDecorativeMask_AlwaysDrawn(s, width, height, edge_type, at_top) ==
    LET d == RandomRandint(s, 0, 10)
    IN  [rng |-> d.rng, wave_count |-> d.value, width |-> width,
         height |-> height, edge_type |-> edge_type, at_top |-> at_top,
         div_fault |-> FALSE]

\* create_decorative_mask: the wave count is drawn from the shared
\* generator when the cut is at the bottom, and is the constant otherwise;
\* div_fault tells whether the edge function divides by zero
CreateDecorativeMask(s, width, height, edge_type, at_top) ==
    LET d == IF ~at_top THEN RandomRandint(s, 2, 10)
             ELSE [rng |-> s, value |-> DEFAULT_WAVE_COUNT]
    IN  [rng |-> d.rng, wave_count |-> d.value, width |-> width,
         height |-> height, edge_type |-> edge_type, at_top |-> at_top,
         div_fault |-> 0 \in EdgeDivisors(edge_type, width, d.value)]

\* the background colour taken from the wash when there is one
CreatePageWithBackground_WashColour(bg, main) ==
    LET bg_color == IF PathExists(bg) /\ ~OpenRaises(bg)
                    THEN GetLightColor(bg, DEFAULT_NUM_COLORS).value
                    ELSE DEFAULT_LIGHT_COLOR
    IN  IF PathExists(bg) /\ OpenRaises(bg)
        THEN [outcome |-> "raise", bg_color |-> bg_color, wash |-> FALSE]
        ELSE [outcome |-> "ok", bg_color |-> bg_color, wash |-> PathExists(bg)]

\* create_page_with_background(bg_image_path, main_image_path)
CreatePageWithBackground(bg, main) ==
    LET bg_color == IF PathExists(main)
                    THEN GetLightColor(main, DEFAULT_NUM_COLORS).value
                    ELSE DEFAULT_LIGHT_COLOR
    IN  IF PathExists(bg) /\ OpenRaises(bg)
        THEN [outcome |-> "raise", bg_color |-> bg_color, wash |-> FALSE]
        ELSE [outcome |-> "ok", bg_color |-> bg_color, wash |-> PathExists(bg)]

NoPage ==
    [outcome |-> "none", page_number |-> 0, main_status |-> "absent",
     bg_status |-> "absent", edge_type |-> "none", bg_color |-> <<>>,
     text_color |-> <<>>, wash_composited |-> FALSE, composited |-> FALSE,
     mask_generated |-> FALSE, at_top |-> FALSE, wave_count |-> 0,
     image_y |-> -1, text_y |-> -1, page_num_position |-> "none",
     text_drawn |-> FALSE, number_drawn |-> FALSE, width |-> 0, height |-> 0]

\* the page composed from the chosen edge style (with the generator's state
\* after the choice), the background page and the text colour
ComposeStoryPage(page_number, bg, main, edge, page, text_color) ==
    LET is_odd_page == IsOddPage(page_number)
        mask == CreateDecorativeMask(edge.rng, PAGE_WIDTH, HALF_HEIGHT,
                                     edge.value, ~is_odd_page)
        started == [NoPage EXCEPT !.page_number = page_number,
                                  !.main_status = main.status,
                                  !.bg_status = bg.status,
                                  !.edge_type = edge.value]
        raised == [started EXCEPT !.outcome = "raise"]
        drawn == [started EXCEPT !.outcome = "ok",
                                 !.bg_color = page.bg_color,
                                 !.text_color = text_color,
                                 !.wash_composited = page.wash,
                                 !.text_y = IF is_odd_page THEN HALF_HEIGHT ELSE 0,
                                 !.page_num_position =
                                     IF is_odd_page THEN "bottom" ELSE "top",
                                 !.text_drawn = TRUE,
                                 !.number_drawn = TRUE,
                                 !.width = PAGE_WIDTH,
                                 !.height = PAGE_HEIGHT]
    IN  IF page.outcome = "raise" THEN [rng |-> edge.rng, page |-> raised]
        ELSE IF PathExists(main) /\ OpenRaises(main)
        THEN [rng |-> edge.rng, page |-> raised]
        ELSE IF PathExists(main) /\ mask.div_fault
        THEN [rng |-> mask.rng, page |-> raised]
        ELSE IF PathExists(main)
        THEN [rng |-> mask.rng,
              page |-> [drawn EXCEPT !.composited = TRUE,
                                     !.mask_generated = TRUE,
                                     !.at_top = mask.at_top,
                                     !.wave_count = mask.wave_count,
                                     !.image_y = IF is_odd_page THEN 0
                                                 ELSE HALF_HEIGHT]]
        ELSE [rng |-> edge.rng, page |-> drawn]

\* create_story_page_with_image_and_text(page_number, bg_image_path,
\* main_image_path, text), called with the generator in state s: the page
\* it returns (or the exception) and the generator's state afterwards.
\* The three parts are bound as values, each computed once.
CreateStoryPage(s, page_number, bg, main) ==
    CHOOSE r \in
        {ComposeStoryPage(page_number, bg, main, edge, page, text_color) :
            edge \in {RandomChoice(RandomSeed(page_number), EDGE_TYPES)},
            page \in {CreatePageWithBackground(bg, main)},
            text_color \in {GetDominantColor(main, DEFAULT_NUM_COLORS).value}} : TRUE

(***************************************************************************)
(* Output file names.  A name is the sequence of its characters.           *)
(***************************************************************************)
DigitChars == <<"0", "1", "2", "3", "4", "5", "6", "7", "8", "9">>

RECURSIVE Digits(_)
Digits(n) ==
    IF n < 10 THEN <<DigitChars[n + 1]>>
    ELSE Append(Digits(n \div 10), DigitChars[(n % 10) + 1])

\* f"{n:02d}"
Format02d(n) == IF n < 10 THEN <<"0">> \o Digits(n) ELSE Digits(n)

PagePrefix == <<"p", "a", "g", "e", "_">>
PngSuffix == <<".", "p", "n", "g">>
CoverPageName == PagePrefix \o <<"0", "0", "_", "c", "o", "v", "e", "r">> \o PngSuffix
StoryPageName(n) == PagePrefix \o Format02d(n) \o PngSuffix
EndPageName(n) == PagePrefix \o Format02d(n) \o <<"_", "e", "n", "d">> \o PngSuffix

\* page.save(output_path): one more bitmap under pages/
Saved(name) == [name |-> name, width |-> PAGE_WIDTH, height |-> PAGE_HEIGHT]

(***************************************************************************)
(* Sample inputs of the batch run.                                         *)
(***************************************************************************)
Grey == <<128, 128, 128>>
Red == <<255, 0, 0>>
Black == <<0, 0, 0>>
Teal == <<64, 200, 120>>

IllustrationFiles ==
    {AbsentFile, CorruptFile, ImageFile(<<Grey, Grey, Red>>, FALSE),
     ImageFile(<<Black>>, FALSE), ImageFile(<<Teal, Grey>>, TRUE)}
WashFiles == {AbsentFile, CorruptFile, ImageFile(<<Grey>>, FALSE)}
BackgroundFiles ==
    {AbsentFile, CorruptFile, ImageFile(<<Teal>>, TRUE), ImageFile(<<Teal>>, FALSE)}

StoryDocs ==
    {[exists |-> FALSE, pages |-> 0]} \cup {[exists |-> TRUE, pages |-> n] : n \in 0..MaxPages}

(***************************************************************************)
(* The batch run: main.                                                    *)
(***************************************************************************)
\* parse_story without its emptiness test
ParseStoryRaises_ExistsOnly(doc) == ~doc.exists

\* parse_story: FileNotFoundError without story.json, ValueError when empty
ParseStoryRaises(doc) == ~doc.exists \/ doc.pages = 0

\* main up to the first page: makedirs, parse_story
MainStart ==
    /\ pc = "start"
    /\ pc' = IF ParseStoryRaises(storyDoc) THEN "aborted" ELSE "cover"
    /\ UNCHANGED <<storyDoc, pageIdx, written, lastPage, rng>>

\* generate_cover_page(output_dir)
GenerateCoverPage ==
    /\ pc = "cover"
    /\ \E bg \in BackgroundFiles :
         IF (PathExists(bg) /\ OpenRaises(bg)) \/ ParseStoryRaises(storyDoc)
         THEN /\ pc' = "aborted"
              /\ UNCHANGED <<pageIdx, written>>
         ELSE /\ written' = Append(written, Saved(CoverPageName))
              /\ pageIdx' = 1
              /\ pc' = IF storyDoc.pages >= 1 THEN "story" ELSE "end"
    /\ UNCHANGED <<storyDoc, lastPage, rng>>

\* generate_story_page(i, page_data, output_dir), one iteration of the loop
GenerateStoryPage ==
    /\ pc = "story"
    /\ \E bg \in WashFiles, main \in IllustrationFiles :
         \E r \in {CreateStoryPage(rng, pageIdx, bg, main)} :
             /\ rng' = r.rng
             /\ lastPage' = r.page
             /\ IF r.page.outcome = "raise"
                THEN /\ pc' = "aborted"
                     /\ UNCHANGED <<pageIdx, written>>
                ELSE /\ written' = Append(written, Saved(StoryPageName(pageIdx)))
                     /\ pageIdx' = pageIdx + 1
                     /\ pc' = IF pageIdx < storyDoc.pages THEN "story" ELSE "end"
    /\ UNCHANGED storyDoc

\* generate_end_page(len(story_pages) + 1, output_dir)
GenerateEndPage ==
    /\ pc = "end"
    /\ \E bg \in BackgroundFiles :
         IF PathExists(bg) /\ OpenRaises(bg)
         THEN /\ pc' = "aborted"
              /\ UNCHANGED written
         ELSE /\ written' = Append(written, Saved(EndPageName(storyDoc.pages + 1)))
              /\ pc' = "done"
    /\ UNCHANGED <<storyDoc, pageIdx, lastPage, rng>>

IdleMain ==
    /\ pc = "idle"
    /\ storyDoc = [exists |-> FALSE, pages |-> 0]
    /\ pageIdx = 0
    /\ written = <<>>
IdleSeen ==
    /\ seenEdge = [n \in 1..MaxPages |-> "none"]
    /\ seenWave = [n \in 1..MaxPages |-> 0]
    /\ renders = [n \in 1..MaxPages |-> 0]
IdlePar ==
    /\ tpc = <<"idle", "idle">>
    /\ tpage = <<0, 0>>
    /\ tedge = <<"none", "none">>
    /\ twave = <<0, 0>>
IdleColor ==
    /\ cfile = AbsentFile
    /\ cnum = 0
    /\ cres = [fn |-> "none", outcome |-> "none", value |-> <<>>, div_fault |-> FALSE]
IdleWrap ==
    /\ wtext = <<>>
    /\ wmax = 0
    /\ wlines = [done |-> FALSE, lines |-> <<>>]
IdleGrad ==
    grad = [width |-> 0, height |-> 0, center_opacity |-> 0, edge_opacity |-> 0,
            done |-> FALSE, alpha |-> <<>>]
IdleDeco ==
    deco = [page_number |-> 0, width |-> 0, height |-> 0, edge_type |-> "none",
            at_top |-> FALSE, done |-> FALSE, outcome |-> "none", wave_count |-> 0]
IdleCrop ==
    crop = [width |-> 0, height |-> 0, target_width |-> 0, target_height |-> 0,
            done |-> FALSE,
            result |-> [new_width |-> 0, new_height |-> 0, left |-> 0, top |-> 0,
                        right |-> 0, bottom |-> 0, out_width |-> 0, out_height |-> 0]]
IdlePdf ==
    pdf = [story_json |-> FALSE, pages_dir |-> FALSE, listing |-> {},
           done |-> FALSE, outcome |-> "none", story_pdf |-> <<>>, cover_pdf |-> <<>>]
IdlePipe ==
    pipe = [prompts |-> 0, stage |-> "idle", k |-> 0, images |-> {}, reads |-> {},
            failed |-> FALSE, attempts |-> <<>>]
IdleSaving == saving = <<>>
IdleWashPair ==
    washPair = [page_number |-> 0, main |-> AbsentFile,
                bg |-> <<AbsentFile, AbsentFile>>, pages |-> <<>>]
IdleTextDraw ==
    tdraw = [page_number |-> 0, text |-> <<>>, done |-> FALSE, lines |-> <<>>,
             area_top |-> 0, area_height |-> 0, start_y |-> 0, line_height |-> 0]
IdleEdgeMask ==
    edgeMask = [edge_type |-> "none", at_top |-> FALSE, width |-> 0, height |-> 0,
                wave_count |-> 0, calls |-> <<>>, between |-> 0]
IdleRetry ==
    retry = [max_retries |-> 0, pc |-> "idle", attempt |-> 0, calls |-> <<>>]
IdleBook ==
    book = [pages |-> 0, stage |-> "idle", i |-> 0, names |-> {}, story_files |-> <<>>]
IdleLast == IdleTextDraw /\ IdleEdgeMask /\ IdleRetry /\ IdleBook
IdleLater ==
    /\ IdleGrad /\ IdleDeco /\ IdleCrop /\ IdlePdf /\ IdlePipe
    /\ IdleSaving /\ IdleWashPair /\ IdleLast

Init ==
    /\ pc = "start"
    /\ storyDoc \in StoryDocs
    /\ pageIdx = 0
    /\ written = <<>>
    /\ lastPage = NoPage
    /\ rng \in InitialRngStates
    /\ IdleSeen /\ IdlePar /\ IdleColor /\ IdleWrap /\ IdleLater

Next ==
    \/ MainStart /\ UNCHANGED <<seenVars, parVars, colorVars, wrapVars, laterVars>>
    \/ GenerateCoverPage /\ UNCHANGED <<seenVars, parVars, colorVars, wrapVars, laterVars>>
    \/ GenerateStoryPage /\ UNCHANGED <<seenVars, parVars, colorVars, wrapVars, laterVars>>
    \/ GenerateEndPage /\ UNCHANGED <<seenVars, parVars, colorVars, wrapVars, laterVars>>

Spec == Init /\ [][Next]_vars

(***************************************************************************)
(* Story pages rendered one after another in any order, the same page any  *)
(* number of times.  seenEdge and seenWave remember what the first render  *)
(* of a page used; renders counts the renders of each page.                *)
(***************************************************************************)
RenderIllustrations == {AbsentFile, CorruptFile, ImageFile(<<Red>>, FALSE)}
RenderWashes == {AbsentFile, ImageFile(<<Grey>>, FALSE)}

RenderAnyPage ==
    \E n \in 1..MaxPages, bg \in RenderWashes, main \in RenderIllustrations :
        \E r \in {CreateStoryPage(rng, n, bg, main)} :
            /\ renders[n] < MaxRenders
            /\ renders' = [renders EXCEPT ![n] = @ + 1]
            /\ rng' = r.rng
            /\ lastPage' = r.page
            /\ seenEdge' = IF seenEdge[n] = "none"
                           THEN [seenEdge EXCEPT ![n] = r.page.edge_type]
                           ELSE seenEdge
            /\ seenWave' = IF seenWave[n] = 0 /\ r.page.mask_generated
                           THEN [seenWave EXCEPT ![n] = r.page.wave_count]
                           ELSE seenWave

InitRender ==
    /\ IdleMain /\ IdleSeen /\ IdlePar /\ IdleColor /\ IdleWrap /\ IdleLater
    /\ lastPage = NoPage
    /\ rng \in InitialRngStates

NextRender ==
    RenderAnyPage /\ UNCHANGED <<mainVars, parVars, colorVars, wrapVars, laterVars>>

SpecRender == InitRender /\ [][NextRender]_vars

(***************************************************************************)
(* Two different story pages rendered at the same time by two threads of   *)
(* one process.  Each thread runs the three statements of the composer     *)
(* that touch the generator: random.seed(page_number), random.choice and,  *)
(* in create_decorative_mask, random.randint.  Both illustrations exist.   *)
(***************************************************************************)
Threads == {1, 2}

ParSeed(t) ==
    /\ tpc[t] = "seed"
    /\ rng' = RandomSeed(tpage[t])
    /\ tpc' = [tpc EXCEPT ![t] = "choose"]
    /\ UNCHANGED <<tpage, tedge, twave>>

ParChoose(t) ==
    /\ tpc[t] = "choose"
    /\ LET d == RandomChoice(rng, EDGE_TYPES)
       IN  /\ rng' = d.rng
           /\ tedge' = [tedge EXCEPT ![t] = d.value]
    /\ tpc' = [tpc EXCEPT ![t] = "mask"]
    /\ UNCHANGED <<tpage, twave>>

ParMask(t) ==
    /\ tpc[t] = "mask"
    /\ LET m == CreateDecorativeMask(rng, PAGE_WIDTH, HALF_HEIGHT, tedge[t],
                                     ~IsOddPage(tpage[t]))
       IN  /\ rng' = m.rng
           /\ twave' = [twave EXCEPT ![t] = m.wave_count]
    /\ tpc' = [tpc EXCEPT ![t] = "done"]
    /\ UNCHANGED <<tpage, tedge>>

InitPar ==
    /\ IdleMain /\ IdleSeen /\ IdleColor /\ IdleWrap /\ IdleLater
    /\ lastPage = NoPage
    /\ rng \in InitialRngStates
    /\ tpc = <<"seed", "seed">>
    /\ tpage \in {f \in [1..2 -> 1..MaxPages] : f[1] # f[2]}
    /\ tedge = <<"none", "none">>
    /\ twave = <<0, 0>>

NextPar ==
    \E t \in Threads :
        \/ ParSeed(t) /\ UNCHANGED <<mainVars, lastPage, seenVars, colorVars, wrapVars, laterVars>>
        \/ ParChoose(t) /\ UNCHANGED <<mainVars, lastPage, seenVars, colorVars, wrapVars, laterVars>>
        \/ ParMask(t) /\ UNCHANGED <<mainVars, lastPage, seenVars, colorVars, wrapVars, laterVars>>

SpecPar == InitPar /\ [][NextPar]_vars

(***************************************************************************)
(* Colour extraction applied to one file.                                  *)
(***************************************************************************)
DimRed == <<63, 10, 10>>
Edgy == <<64, 48, 48>>
Pale == <<255, 190, 190>>
Palette == {Black, Grey, Red, Teal, DimRed, Edgy, Pale}

PixelSeqs == UNION {[1..k -> Palette] : k \in 1..MaxPixels}
ColorFiles == {AbsentFile, CorruptFile} \cup {ImageFile(px, FALSE) : px \in PixelSeqs}
NumColorsArgs == (1..MaxNumColors) \cup {DEFAULT_NUM_COLORS}

CallGetDominantColor ==
    LET r == GetDominantColor(cfile, cnum)
    IN  /\ cres' = [fn |-> "dark", outcome |-> r.outcome, value |-> r.value,
                    div_fault |-> r.div_fault]
        /\ UNCHANGED <<cfile, cnum>>

CallGetLightColor ==
    LET r == GetLightColor(cfile, cnum)
    IN  /\ cres' = [fn |-> "light", outcome |-> r.outcome, value |-> r.value,
                    div_fault |-> r.div_fault]
        /\ UNCHANGED <<cfile, cnum>>

InitColor ==
    /\ IdleMain /\ IdleSeen /\ IdlePar /\ IdleWrap /\ IdleLater
    /\ lastPage = NoPage
    /\ rng = [seed |-> 0, pos |-> 0]
    /\ cfile \in ColorFiles
    /\ cnum \in NumColorsArgs
    /\ cres = [fn |-> "none", outcome |-> "none", value |-> <<>>, div_fault |-> FALSE]

CallGetBrightestColor ==
    \E r \in {GetBrightestColor(cfile, cnum)} :
        /\ cres' = [fn |-> "bright", outcome |-> r.outcome, value |-> r.value,
                    div_fault |-> r.div_fault]
        /\ UNCHANGED <<cfile, cnum>>

NextColor ==
    \/ CallGetBrightestColor
         /\ UNCHANGED <<mainVars, lastPage, rng, seenVars, parVars, wrapVars,
                      laterVars>>
    \/ CallGetDominantColor
         /\ UNCHANGED <<mainVars, lastPage, rng, seenVars, parVars, wrapVars,
                      laterVars>>
    \/ CallGetLightColor
         /\ UNCHANGED <<mainVars, lastPage, rng, seenVars, parVars, wrapVars,
                      laterVars>>

SpecColor == InitColor /\ [][NextColor]_vars

(***************************************************************************)
(* Text wrapping: wrap_text.  A text is the sequence of its characters: a  *)
(* narrow letter, a wide letter and the blank.  The font measures a line   *)
(* as the sum of the advance widths of its characters.                     *)
(***************************************************************************)
TextChars == {"a", "W", " "}
CharWidth(c) == IF c = "W" THEN 4 ELSE 1

\* draw.textbbox((0, 0), line, font=font): bbox[2] - bbox[0]
RECURSIVE TextWidth(_)
TextWidth(line) ==
    IF line = <<>> THEN 0 ELSE CharWidth(Head(line)) + TextWidth(Tail(line))

\* text.split(): the maximal runs of non-blank characters, in order
RECURSIVE SplitFrom(_, _, _)
SplitFrom(text, words, word) ==
    IF text = <<>> THEN (IF word = <<>> THEN words ELSE Append(words, word))
    ELSE IF Head(text) = " "
         THEN SplitFrom(Tail(text), IF word = <<>> THEN words ELSE Append(words, word), <<>>)
         ELSE SplitFrom(Tail(text), words, Append(word, Head(text)))

Split(text) == SplitFrom(text, <<>>, <<>>)

\* ' '.join(words)
RECURSIVE Join(_)
Join(words) ==
    IF words = <<>> THEN <<>>
    ELSE IF Len(words) = 1 THEN words[1]
    ELSE words[1] \o <<" ">> \o Join(Tail(words))

\* the test applied to the new word alone
Fits_WordAlone(current_line, word, max_width) == TextWidth(word) <= max_width

\* the test of the loop: the current line with the word added still fits
Fits(current_line, word, max_width) ==
    TextWidth(Join(Append(current_line, word))) <= max_width

\* the loop of wrap_text over the remaining words
RECURSIVE WrapLoop(_, _, _, _)
WrapLoop(words, lines, current_line, max_width) ==
    IF words = <<>>
    THEN (IF current_line # <<>> THEN Append(lines, Join(current_line)) ELSE lines)
    ELSE IF Fits(current_line, Head(words), max_width)
         THEN WrapLoop(Tail(words), lines, Append(current_line, Head(words)), max_width)
         ELSE WrapLoop(Tail(words),
                       IF current_line # <<>> THEN Append(lines, Join(current_line))
                       ELSE lines,
                       <<Head(words)>>, max_width)

\* wrap_text with the last line appended whether or not it holds a word
WrapText_AlwaysFlushed(text, max_width) ==
    IF Split(text) = <<>> THEN <<<<>>>>
    ELSE WrapLoop(Split(text), <<>>, <<>>, max_width)

\* wrap_text(text, font, max_width, draw)
WrapText(text, max_width) == WrapLoop(Split(text), <<>>, <<>>, max_width)

Texts == UNION {[1..k -> TextChars] : k \in 0..MaxTextLen}
MaxWidths == {2, 3, 5}

CallWrapText ==
    /\ ~wlines.done
    /\ wlines' = [done |-> TRUE, lines |-> WrapText(wtext, wmax)]
    /\ UNCHANGED <<wtext, wmax>>

InitWrap ==
    /\ IdleMain /\ IdleSeen /\ IdlePar /\ IdleColor /\ IdleLater
    /\ lastPage = NoPage
    /\ rng = [seed |-> 0, pos |-> 0]
    /\ wtext \in Texts
    /\ wmax \in MaxWidths
    /\ wlines = [done |-> FALSE, lines |-> <<>>]

NextWrap ==
    CallWrapText /\ UNCHANGED <<mainVars, lastPage, rng, seenVars, parVars, colorVars,
                                laterVars>>

SpecWrap == InitWrap /\ [][NextWrap]_vars

(***************************************************************************)
(* create_radial_gradient_mask.  Opacities are counted in hundredths and   *)
(* distances are kept squared and doubled, so that every comparison of the *)
(* code is one of integers: with c and e the two opacities, n the squared  *)
(* doubled distance of a pixel from the centre and m that of the pixel     *)
(* (0, 0), the alpha of the pixel is the largest a with                    *)
(*     a <= 255 * (c + (e - c) * sqrt(min(n, m) / m)) / 100.               *)
(* For the opacities of Opacities and sides up to 8 this is the value the  *)
(* double-precision computation of the code yields.                        *)
(***************************************************************************)
BG_OPACITY_CENTER == 3
BG_OPACITY_EDGE == 15
Opacities == {0, BG_OPACITY_CENTER, BG_OPACITY_EDGE, 50}

\* int(opacity * 255) of a constant opacity
OpacityByte(opacity) == (opacity * 255) \div 100

\* center_x, center_y = width / 2, height / 2 (doubled)
GradientCenter_LastPixelMiddle(size) == size - 1
GradientCenter(size) == size

\* max_dist ** 2, times 4
MaxDistSq(width, height) ==
    GradientCenter(width) * GradientCenter(width)
        + GradientCenter(height) * GradientCenter(height)

\* (x - center_x)**2 + (y - center_y)**2, times 4
DistSq(x, y, width, height) ==
    (2 * x - GradientCenter(width)) * (2 * x - GradientCenter(width))
        + (2 * y - GradientCenter(height)) * (2 * y - GradientCenter(height))

\* a <= opacity * 255 for the pixel at clipped distance sqrt(n / m)
AlphaAtMost(a, n, m, center_opacity, edge_opacity) ==
    LET d == edge_opacity - center_opacity
        l == 20 * a - 51 * center_opacity
    IN  IF d >= 0
        THEN l <= 0 \/ (l <= 51 * d /\ l * l * m <= 2601 * d * d * n)
        ELSE l <= 0 /\ 2601 * d * d * n <= l * l * m

GradientAlpha(x, y, width, height, center_opacity, edge_opacity) ==
    LET m == MaxDistSq(width, height)
        n == Min2(DistSq(x, y, width, height), m)
    IN  CHOOSE a \in 0..255 :
            /\ AlphaAtMost(a, n, m, center_opacity, edge_opacity)
            /\ a < 255 => ~AlphaAtMost(a + 1, n, m, center_opacity, edge_opacity)

CreateRadialGradientMask(width, height, center_opacity, edge_opacity) ==
    [y \in 0..(height - 1) |->
        [x \in 0..(width - 1) |->
            GradientAlpha(x, y, width, height, center_opacity, edge_opacity)]]

CallCreateRadialGradientMask ==
    /\ ~grad.done
    /\ grad' = [grad EXCEPT
                   !.done = TRUE,
                   !.alpha = CreateRadialGradientMask(grad.width, grad.height,
                                 grad.center_opacity, grad.edge_opacity)]

IdleCore ==
    /\ IdleMain /\ IdleSeen /\ IdlePar /\ IdleColor /\ IdleWrap
    /\ lastPage = NoPage
    /\ rng = [seed |-> 0, pos |-> 0]
coreVars == <<mainVars, lastPage, rng, seenVars, parVars, colorVars, wrapVars>>

InitGradient ==
    /\ IdleCore
    /\ IdleDeco /\ IdleCrop /\ IdlePdf /\ IdlePipe /\ IdleSaving /\ IdleWashPair
    /\ IdleLast
    /\ grad \in [width : 1..MaxSide, height : 1..MaxSide,
                 center_opacity : Opacities, edge_opacity : Opacities,
                 done : {FALSE}, alpha : {<<>>}]

NextGradient ==
    CallCreateRadialGradientMask
        /\ UNCHANGED <<coreVars, deco, crop, pdf, pipe, saving, washPair, lastVars>>

SpecGradient == InitGradient /\ [][NextGradient]_vars

(***************************************************************************)
(* One call of create_decorative_mask.  With page_number = 0 the call is   *)
(* made directly, with any width from 0 and any edge type, an unknown one  *)
(* included; otherwise it is the call that the composer makes for story    *)
(* page page_number, whose illustration exists.  The call draws from the   *)
(* generator when the cut is at the bottom.                                *)
(***************************************************************************)
MaskHeights == {0, WAVE_HEIGHT, HALF_HEIGHT}
EdgeTypeArgs == {EDGE_TYPES[i] : i \in 1..Len(EDGE_TYPES)} \cup {"torn"}

\* generator states with at least half of the tabulated outputs ahead
GeneratorStates == {[seed |-> s, pos |-> p] : s \in 0..(Len(MTTop4) - 1), p \in 0..7}

CallCreateDecorativeMask ==
    /\ ~deco.done /\ deco.page_number = 0
    /\ \E m \in {CreateDecorativeMask(rng, deco.width, deco.height,
                                      deco.edge_type, deco.at_top)} :
         /\ rng' = m.rng
         /\ deco' = [deco EXCEPT
                        !.done = TRUE,
                        !.wave_count = m.wave_count,
                        !.outcome = IF m.div_fault THEN "ZeroDivisionError"
                                    ELSE "ok"]

\* create_story_page_with_image_and_text up to the mask of the illustration
StoryPageCreatesMask ==
    /\ ~deco.done /\ deco.page_number >= 1
    /\ \E r \in {CreateStoryPage(rng, deco.page_number, AbsentFile,
                                  ImageFile(<<Teal, Grey>>, TRUE))} :
         /\ rng' = r.rng
         /\ deco' = [deco EXCEPT
                        !.done = TRUE,
                        !.edge_type = r.page.edge_type,
                        !.at_top = r.page.at_top,
                        !.wave_count = r.page.wave_count,
                        !.outcome = IF r.page.mask_generated THEN "ok"
                                    ELSE "ZeroDivisionError"]

InitDeco ==
    /\ IdleMain /\ IdleSeen /\ IdlePar /\ IdleColor /\ IdleWrap
    /\ lastPage = NoPage
    /\ IdleGrad /\ IdleCrop /\ IdlePdf /\ IdlePipe /\ IdleSaving /\ IdleWashPair
    /\ IdleLast
    /\ rng \in GeneratorStates
    /\ \/ deco \in [page_number : {0}, width : 0..MaxMaskWidth, height : MaskHeights,
                     edge_type : EdgeTypeArgs, at_top : BOOLEAN,
                     done : {FALSE}, outcome : {"none"}, wave_count : {0}]
       \/ deco \in [page_number : 1..MaxPages, width : {PAGE_WIDTH},
                     height : {HALF_HEIGHT}, edge_type : {"none"}, at_top : {FALSE},
                     done : {FALSE}, outcome : {"none"}, wave_count : {0}]

idleInDeco ==
    <<mainVars, lastPage, seenVars, parVars, colorVars, wrapVars,
      grad, crop, pdf, pipe, saving, washPair, lastVars>>

NextDeco ==
    \/ CallCreateDecorativeMask /\ UNCHANGED idleInDeco
    \/ StoryPageCreatesMask /\ UNCHANGED idleInDeco

SpecDeco == InitDeco /\ [][NextDeco]_vars

(***************************************************************************)
(* A run of main in which page.save(output_path) is not atomic.  Each      *)
(* generate_*_page function composes its page and calls page.save, which   *)
(* opens the file under output_path, writes the encoded bitmap and closes  *)
(* it.  saving is the name of the file that is open and not yet complete;  *)
(* written lists the files that were closed.  The process can be killed    *)
(* at any point.                                                           *)
(***************************************************************************)
\* generate_cover_page up to the open of page.save(output_path)
CoverPageSaveOpens ==
    /\ pc = "cover" /\ saving = <<>>
    /\ \E bg \in BackgroundFiles :
         IF (PathExists(bg) /\ OpenRaises(bg)) \/ ParseStoryRaises(storyDoc)
         THEN pc' = "aborted" /\ saving' = saving
         ELSE pc' = pc /\ saving' = Saved(CoverPageName)
    /\ UNCHANGED <<storyDoc, pageIdx, written, lastPage, rng>>

\* generate_story_page up to the open of page.save(output_path)
StoryPageSaveOpens ==
    /\ pc = "story" /\ saving = <<>>
    /\ \E bg \in RenderWashes, main \in RenderIllustrations :
         \E r \in {CreateStoryPage(rng, pageIdx, bg, main)} :
             /\ rng' = r.rng
             /\ lastPage' = r.page
             /\ IF r.page.outcome = "raise"
                THEN pc' = "aborted" /\ saving' = saving
                ELSE pc' = pc /\ saving' = Saved(StoryPageName(pageIdx))
    /\ UNCHANGED <<storyDoc, pageIdx, written>>

\* generate_end_page up to the open of page.save(output_path)
EndPageSaveOpens ==
    /\ pc = "end" /\ saving = <<>>
    /\ \E bg \in BackgroundFiles :
         IF PathExists(bg) /\ OpenRaises(bg)
         THEN pc' = "aborted" /\ saving' = saving
         ELSE pc' = pc /\ saving' = Saved(EndPageName(storyDoc.pages + 1))
    /\ UNCHANGED <<storyDoc, pageIdx, written, lastPage, rng>>

\* the rest of page.save: the bitmap is written, the file is closed, and
\* main goes on to the next page
PageSaveCompletes ==
    /\ pc \in {"cover", "story", "end"} /\ saving # <<>>
    /\ written' = Append(written, saving)
    /\ saving' = <<>>
    /\ pageIdx' = CASE pc = "cover" -> 1
                    [] pc = "story" -> pageIdx + 1
                    [] OTHER -> pageIdx
    /\ pc' = CASE pc = "cover" -> IF storyDoc.pages >= 1 THEN "story" ELSE "end"
               [] pc = "story" -> IF pageIdx < storyDoc.pages THEN "story" ELSE "end"
               [] OTHER -> "done"
    /\ UNCHANGED <<storyDoc, lastPage, rng>>

\* the process is killed: nothing runs afterwards, the files stay as they are
Interrupt ==
    /\ pc \in {"start", "cover", "story", "end"}
    /\ pc' = "killed"
    /\ UNCHANGED <<storyDoc, pageIdx, written, lastPage, rng, saving>>

\* the files visible under pages/, each complete or partially written
PagesDir ==
    [name \in {written[i] : i \in 1..Len(written)} \cup
              (IF saving = <<>> THEN {} ELSE {saving}) |->
        IF saving # <<>> /\ name = saving THEN "partial" ELSE "complete"]

InitInterrupt ==
    /\ pc = "start"
    /\ storyDoc \in StoryDocs
    /\ pageIdx = 0
    /\ written = <<>>
    /\ lastPage = NoPage
    /\ rng \in InitialRngStates
    /\ IdleSeen /\ IdlePar /\ IdleColor /\ IdleWrap
    /\ IdleGrad /\ IdleDeco /\ IdleCrop /\ IdlePdf /\ IdlePipe /\ IdleWashPair
    /\ IdleLast
    /\ saving = <<>>

idleInInterrupt ==
    <<seenVars, parVars, colorVars, wrapVars, grad, deco, crop, pdf, pipe, washPair,
      lastVars>>

NextInterrupt ==
    \/ MainStart /\ UNCHANGED <<idleInInterrupt, saving>>
    \/ CoverPageSaveOpens /\ UNCHANGED idleInInterrupt
    \/ StoryPageSaveOpens /\ UNCHANGED idleInInterrupt
    \/ EndPageSaveOpens /\ UNCHANGED idleInInterrupt
    \/ PageSaveCompletes /\ UNCHANGED idleInInterrupt
    \/ Interrupt /\ UNCHANGED idleInInterrupt

SpecInterrupt == InitInterrupt /\ [][NextInterrupt]_vars

(***************************************************************************)
(* create_pdf.py.  The script lists pages/, sorts the names as Python      *)
(* sorts strings (by code point), sets the cover and the end bitmap apart  *)
(* and writes two documents: the story document with one page per story    *)
(* bitmap, and the cover document with one double-wide page.               *)
(***************************************************************************)
PDF_PAGE_WIDTH == (PAGE_WIDTH * 72) \div DPI
PDF_PAGE_HEIGHT == (PAGE_HEIGHT * 72) \div DPI
SPREAD_WIDTH == PDF_PAGE_WIDTH * 2

\* the characters of the file names, in the order of their code points
CodePointOrder ==
    <<".", "0", "1", "2", "3", "4", "5", "6", "7", "8", "9", "_",
      "a", "c", "d", "e", "g", "n", "o", "p", "r", "s", "t", "v", "x">>
Ord(c) == CHOOSE i \in 1..Len(CodePointOrder) : CodePointOrder[i] = c

\* a < b for Python strings
RECURSIVE StrLess(_, _)
StrLess(a, b) ==
    IF b = <<>> THEN FALSE
    ELSE IF a = <<>> THEN TRUE
    ELSE IF Head(a) # Head(b) THEN Ord(Head(a)) < Ord(Head(b))
    ELSE StrLess(Tail(a), Tail(b))

\* sorted(names), in reverse
RECURSIVE Sorted_Descending(_)
Sorted_Descending(names) ==
    IF names = {} THEN <<>>
    ELSE LET last == CHOOSE a \in names : \A b \in names \ {a} : StrLess(b, a)
         IN  <<last>> \o Sorted_Descending(names \ {last})

\* sorted(names): each name at the place given by the number of names
\* before it
Sorted(names) ==
    CHOOSE page_files \in
        {[i \in 1..Cardinality(names) |-> CHOOSE a \in names : rank[a] = i - 1] :
            rank \in {[a \in names |-> Cardinality({b \in names : StrLess(b, a)})]}} :
        TRUE

\* sub in f
StrContains(f, sub) ==
    \E i \in 1..(Len(f) - Len(sub) + 1) : SubSeq(f, i, i + Len(sub) - 1) = sub

\* f.endswith(suffix)
EndsWith(f, suffix) ==
    /\ Len(f) >= Len(suffix)
    /\ SubSeq(f, Len(f) - Len(suffix) + 1, Len(f)) = suffix

CoverWord == <<"c", "o", "v", "e", "r">>
EndWord == <<"e", "n", "d">>
NoFile == <<>>

\* the loop that separates cover, story pages and end page: the last name
\* with 'cover' in it, the last of the others with 'end' in it, and the
\* rest in the order of the listing
Separate(page_files) ==
    LET IsCover(f) == StrContains(f, CoverWord)
        IsEnd(f) == ~IsCover(f) /\ StrContains(f, EndWord)
        LastOf(found) ==
            IF found = {} THEN NoFile
            ELSE page_files[CHOOSE i \in found : \A j \in found : j <= i]
    IN  [cover_file |-> LastOf({i \in 1..Len(page_files) : IsCover(page_files[i])}),
         end_file |-> LastOf({i \in 1..Len(page_files) : IsEnd(page_files[i])}),
         story_files |-> SelectSeq(page_files, LAMBDA f : ~IsCover(f) /\ ~IsEnd(f))]

\* the story document: for each story file a page of the book page size
\* with the bitmap drawn over all of it
StoryPdf(story_files) ==
    [i \in 1..Len(story_files) |->
        [width |-> PDF_PAGE_WIDTH, height |-> PDF_PAGE_HEIGHT,
         images |-> {[file |-> story_files[i], x |-> 0,
                      width |-> PDF_PAGE_WIDTH, height |-> PDF_PAGE_HEIGHT]}]]

\* the cover document: one double-wide page, end page on the left half and
\* cover on the right half
CoverPdf(cover_file, end_file) ==
    <<[width |-> SPREAD_WIDTH, height |-> PDF_PAGE_HEIGHT,
       images |->
           (IF end_file # NoFile
            THEN {[file |-> end_file, x |-> 0,
                   width |-> PDF_PAGE_WIDTH, height |-> PDF_PAGE_HEIGHT]}
            ELSE {})
           \cup
           (IF cover_file # NoFile
            THEN {[file |-> cover_file, x |-> PDF_PAGE_WIDTH,
                   width |-> PDF_PAGE_WIDTH, height |-> PDF_PAGE_HEIGHT]}
            ELSE {})]>>

\* the names os.listdir("pages") can return: bitmaps of this and of earlier
\* runs, and a file that is not a bitmap
TextFileName == <<"n", "o", "t", "e", "s", ".", "t", "x", "t">>
ListableNames ==
    {CoverPageName, TextFileName}
        \cup {StoryPageName(n) : n \in 1..MaxPages}
        \cup {EndPageName(n + 1) : n \in 1..MaxPages}

\* the whole script
CreatePdf ==
    /\ ~pdf.done
    /\ \E page_files \in {Sorted({f \in pdf.listing : EndsWith(f, PngSuffix)})} :
         IF ~pdf.story_json \/ ~pdf.pages_dir \/ page_files = <<>>
         THEN pdf' = [pdf EXCEPT !.done = TRUE, !.outcome = "FileNotFoundError"]
         ELSE \E sep \in {Separate(page_files)} :
                  pdf' = [pdf EXCEPT
                             !.done = TRUE,
                             !.outcome = "ok",
                             !.story_pdf = StoryPdf(sep.story_files),
                             !.cover_pdf = CoverPdf(sep.cover_file, sep.end_file)]

InitPdf ==
    /\ IdleCore
    /\ IdleGrad /\ IdleDeco /\ IdleCrop /\ IdlePipe /\ IdleSaving /\ IdleWashPair
    /\ IdleLast
    /\ pdf \in [story_json : BOOLEAN, pages_dir : BOOLEAN,
                listing : SUBSET ListableNames,
                done : {FALSE}, outcome : {"none"},
                story_pdf : {<<>>}, cover_pdf : {<<>>}]
    /\ ~pdf.pages_dir => pdf.listing = {}

NextPdf ==
    CreatePdf /\ UNCHANGED <<coreVars, grad, deco, crop, pipe, saving, washPair, lastVars>>

SpecPdf == InitPdf /\ [][NextPdf]_vars

(***************************************************************************)
(* One story page rendered twice, the two renders differing in the wash    *)
(* only: the illustration, the page number and the generator state are     *)
(* the same.  A wash is a decodable image or is absent.                    *)
(***************************************************************************)
WashImages ==
    {AbsentFile, ImageFile(<<Grey>>, FALSE), ImageFile(<<Red>>, FALSE),
     ImageFile(<<Teal, Red>>, TRUE)}

RenderWithTwoWashes ==
    /\ washPair.pages = <<>>
    /\ \E first \in {CreateStoryPage(rng, washPair.page_number, washPair.bg[1],
                                     washPair.main)},
          second \in {CreateStoryPage(rng, washPair.page_number, washPair.bg[2],
                                      washPair.main)} :
         washPair' = [washPair EXCEPT !.pages = <<first.page, second.page>>]

InitWash ==
    /\ IdleMain /\ IdleSeen /\ IdlePar /\ IdleColor /\ IdleWrap
    /\ lastPage = NoPage
    /\ rng \in InitialRngStates
    /\ IdleGrad /\ IdleDeco /\ IdleCrop /\ IdlePdf /\ IdlePipe /\ IdleSaving
    /\ IdleLast
    /\ washPair \in [page_number : 1..MaxPages, main : IllustrationFiles,
                     bg : WashImages \X WashImages, pages : {<<>>}]

NextWash ==
    RenderWithTwoWashes
        /\ UNCHANGED <<coreVars, grad, deco, crop, pdf, pipe, saving, lastVars>>

SpecWash == InitWash /\ [][NextWash]_vars

(***************************************************************************)
(* The image generator followed by the page composer, for the same number  *)
(* of pages.  generate_images.main calls generate_image for the cover,     *)
(* for each prompt and for the end page; each call downloads two images,   *)
(* and a download that fails after all retries writes no file.  The        *)
(* composer then reads the paths it builds itself.  pipe.images is the     *)
(* set of paths written, pipe.reads the set of paths read.                 *)
(***************************************************************************)
ImagesDir == <<"i", "m", "a", "g", "e", "s", "/">>
BgSuffix == <<"_", "b", "g">> \o PngSuffix

\* s.startswith(sub)
StartsWith(s, sub) == Len(s) >= Len(sub) /\ SubSeq(s, 1, Len(sub)) = sub

\* s.replace(sub, rep)
RECURSIVE StrReplace(_, _, _)
StrReplace(s, sub, rep) ==
    IF s = <<>> THEN <<>>
    ELSE IF StartsWith(s, sub)
    THEN rep \o StrReplace(SubSeq(s, Len(sub) + 1, Len(s)), sub, rep)
    ELSE <<Head(s)>> \o StrReplace(Tail(s), sub, rep)

\* base_filename = filename.replace('.png', '')
BaseFilename(filename) == StrReplace(filename, PngSuffix, <<>>)

\* the portrait file named without stripping the suffix first
PortraitFile_SuffixKept(filename) == filename \o BgSuffix

\* portrait_file = f"{base_filename}_bg.png"
PortraitFile(filename) == BaseFilename(filename) \o BgSuffix

\* landscape_file = f"{base_filename}.png"
LandscapeFile(filename) == BaseFilename(filename) \o PngSuffix

\* the filename argument of the k-th call of generate_image, k = 0 for the
\* cover, 1..N for the prompts, N + 1 for the end page
GeneratorTarget(k, n) ==
    IF k = 0 THEN ImagesDir \o CoverPageName
    ELSE IF k <= n THEN ImagesDir \o StoryPageName(k)
    ELSE ImagesDir \o EndPageName(n + 1)

\* the paths the composer reads for its k-th page
ComposerReads(k, n) ==
    IF k = 0
    THEN {ImagesDir \o PagePrefix \o <<"0", "0", "_", "c", "o", "v", "e", "r">> \o BgSuffix}
    ELSE IF k <= n
    THEN {ImagesDir \o PagePrefix \o Format02d(k) \o BgSuffix,
          ImagesDir \o PagePrefix \o Format02d(k) \o PngSuffix}
    ELSE {ImagesDir \o PagePrefix \o Format02d(n + 1) \o <<"_", "e", "n", "d">> \o BgSuffix}

\* generate_images.main up to the first call: no prompt, no image
GeneratorStart ==
    /\ pipe.stage = "start"
    /\ pipe' = [pipe EXCEPT !.stage = IF pipe.prompts = 0 THEN "aborted"
                                      ELSE "generate"]

\* generate_image that gives the run up when a download has failed
GenerateImage_AbortsOnFailure ==
    /\ pipe.stage = "generate"
    /\ \E portrait_ok, landscape_ok \in BOOLEAN :
         LET filename == GeneratorTarget(pipe.k, pipe.prompts)
             files == (IF portrait_ok THEN {PortraitFile(filename)} ELSE {})
                          \cup (IF landscape_ok THEN {LandscapeFile(filename)} ELSE {})
         IN  pipe' = [pipe EXCEPT
                         !.images = @ \cup files,
                         !.failed = @ \/ ~portrait_ok \/ ~landscape_ok,
                         !.attempts = @ \o <<[file |-> PortraitFile(filename),
                                              ok |-> portrait_ok],
                                             [file |-> LandscapeFile(filename),
                                              ok |-> landscape_ok]>>,
                         !.k = IF pipe.k = pipe.prompts + 1 THEN 0 ELSE @ + 1,
                         !.stage = IF ~portrait_ok \/ ~landscape_ok THEN "aborted"
                                   ELSE IF pipe.k = pipe.prompts + 1 THEN "compose"
                                   ELSE "generate"]

\* one call of generate_image(prompt, filename): two downloads, each of
\* which ends with the file written or, after the last retry, without it
GenerateImage ==
    /\ pipe.stage = "generate"
    /\ \E portrait_ok, landscape_ok \in BOOLEAN :
         LET filename == GeneratorTarget(pipe.k, pipe.prompts)
             files == (IF portrait_ok THEN {PortraitFile(filename)} ELSE {})
                          \cup (IF landscape_ok THEN {LandscapeFile(filename)} ELSE {})
         IN  pipe' = [pipe EXCEPT
                         !.images = @ \cup files,
                         !.failed = @ \/ ~portrait_ok \/ ~landscape_ok,
                         !.attempts = @ \o <<[file |-> PortraitFile(filename),
                                              ok |-> portrait_ok],
                                             [file |-> LandscapeFile(filename),
                                              ok |-> landscape_ok]>>,
                         !.k = IF pipe.k = pipe.prompts + 1 THEN 0 ELSE @ + 1,
                         !.stage = IF pipe.k = pipe.prompts + 1 THEN "compose"
                                   ELSE "generate"]

\* one page of generate_page.main: cover, story page or end page
ComposePage ==
    /\ pipe.stage = "compose"
    /\ pipe' = [pipe EXCEPT
                   !.reads = @ \cup ComposerReads(pipe.k, pipe.prompts),
                   !.k = @ + 1,
                   !.stage = IF pipe.k = pipe.prompts + 1 THEN "done"
                             ELSE "compose"]

InitPipe ==
    /\ IdleCore
    /\ IdleGrad /\ IdleDeco /\ IdleCrop /\ IdlePdf /\ IdleSaving /\ IdleWashPair
    /\ IdleLast
    /\ pipe \in [prompts : 0..MaxPages, stage : {"start"}, k : {0},
                 images : {{}}, reads : {{}}, failed : {FALSE}, attempts : {<<>>}]

idleInPipe == <<coreVars, grad, deco, crop, pdf, saving, washPair, lastVars>>

NextPipe ==
    \/ GeneratorStart /\ UNCHANGED idleInPipe
    \/ GenerateImage /\ UNCHANGED idleInPipe
    \/ ComposePage /\ UNCHANGED idleInPipe

SpecPipe == InitPipe /\ [][NextPipe]_vars

(***************************************************************************)
(* _resize_and_crop_image.  scale is the double max(tw / iw, th / ih) and  *)
(* the new size is int(iw * scale), int(ih * scale).  The exact product    *)
(* a * n / d is either not an integer, and then the double product         *)
(* truncates to its floor, or an integer, and then the double product can  *)
(* fall just below it and truncate to one less; FloatShortProducts lists   *)
(* the triples <<a, n, d>> for which it does, among a, d up to 14 and the  *)
(* n of CropTargets (computed with CPython).                               *)
(***************************************************************************)
FloatShortProducts == {<<7, 1875, 7>>, <<14, 1875, 7>>, <<14, 1875, 14>>}

\* int(a * (n / d))
IntOfProduct(a, n, d) ==
    IF <<a, n, d>> \in FloatShortProducts THEN ((a * n) \div d) - 1
    ELSE (a * n) \div d

\* int(side * scale) with scale = max(target_width / img_width,
\* target_height / img_height)
ScaledSide(side, img_width, img_height, target_width, target_height) ==
    IF target_width * img_height >= target_height * img_width
    THEN IntOfProduct(side, target_width, img_width)
    ELSE IntOfProduct(side, target_height, img_height)

\* a // 2 of Python: rounds toward minus infinity
FloorHalf(a) == IF a >= 0 THEN a \div 2 ELSE -((1 - a) \div 2)

\* the scaled size, the crop box and the size of the image that crop returns
ResizeAndCropImage(img_width, img_height, target_width, target_height) ==
    LET new_width == ScaledSide(img_width, img_width, img_height,
                                target_width, target_height)
        new_height == ScaledSide(img_height, img_width, img_height,
                                 target_width, target_height)
        left == FloorHalf(new_width - target_width)
        top == FloorHalf(new_height - target_height)
    IN  [new_width |-> new_width, new_height |-> new_height,
         left |-> left, top |-> top,
         right |-> left + target_width, bottom |-> top + target_height,
         out_width |-> (left + target_width) - left,
         out_height |-> (top + target_height) - top]

CropTargets == {<<PAGE_WIDTH, HALF_HEIGHT>>, <<1, 1>>, <<2, 3>>, <<10, 4>>}

CallResizeAndCropImage ==
    /\ ~crop.done
    /\ crop' = [crop EXCEPT
                   !.done = TRUE,
                   !.result = ResizeAndCropImage(crop.width, crop.height,
                                  crop.target_width, crop.target_height)]

NoCrop ==
    [new_width |-> 0, new_height |-> 0, left |-> 0, top |-> 0, right |-> 0,
     bottom |-> 0, out_width |-> 0, out_height |-> 0]

InitCrop ==
    /\ IdleCore
    /\ IdleGrad /\ IdleDeco /\ IdlePdf /\ IdlePipe /\ IdleSaving /\ IdleWashPair
    /\ IdleLast
    /\ \E t \in CropTargets :
         crop \in [width : 1..MaxSourceSide, height : 1..MaxSourceSide,
                   target_width : {t[1]}, target_height : {t[2]},
                   done : {FALSE}, result : {NoCrop}]

NextCrop ==
    CallResizeAndCropImage
        /\ UNCHANGED <<coreVars, grad, deco, pdf, pipe, saving, washPair, lastVars>>

SpecCrop == InitCrop /\ [][NextCrop]_vars

IdleEarlier ==
    /\ IdleCore
    /\ IdleGrad /\ IdleDeco /\ IdleCrop /\ IdlePdf /\ IdlePipe /\ IdleSaving
    /\ IdleWashPair
earlierVars == <<grad, deco, crop, pdf, pipe, saving, washPair>>

(***************************************************************************)
(* draw_centered_text, as the composer calls it for story page             *)
(* page_number: the text area is the lower half of an odd page and the     *)
(* upper half of an even one.  Widths are counted in the unit of           *)
(* CharWidth, GlyphUnit pixels wide, so that a wide letter is a word       *)
(* that shares its line with no other and three narrow words fill a line.  *)
(* A story text is a run of wide words followed by a run of narrow ones.   *)
(***************************************************************************)
FONT_SIZE == 48
LINE_SPACING == 2
TEXT_MARGIN == 100
GlyphUnit == 335

RECURSIVE Repeat(_, _)
Repeat(word, n) == IF n = 0 THEN <<>> ELSE <<word>> \o Repeat(word, n - 1)

StoryTexts ==
    UNION {{Join(Repeat(<<"W">>, j) \o Repeat(<<"a">>, k - j)) : j \in 0..k} :
               k \in 0..MaxWords}

\* start_y = area_top + (area_height - total_text_height) // 2
StartY(area_top, area_height, total_text_height) ==
    area_top + FloorHalf(area_height - total_text_height)

\* draw_centered_text: the wrapped lines and the rows they are drawn on
DrawCenteredText(text, area_top, area_height) ==
    LET max_width == PAGE_WIDTH - (2 * TEXT_MARGIN)
        lines == WrapText(text, max_width \div GlyphUnit)
        line_height == FONT_SIZE * LINE_SPACING
        total_text_height == Len(lines) * line_height
    IN  [lines |-> lines, line_height |-> line_height,
         start_y |-> StartY(area_top, area_height, total_text_height)]

\* text_y = HALF_HEIGHT if is_odd_page else 0
TextY(page_number) == IF IsOddPage(page_number) THEN HALF_HEIGHT ELSE 0

CallDrawCenteredText ==
    /\ ~tdraw.done
    /\ \E r \in {DrawCenteredText(tdraw.text, TextY(tdraw.page_number), HALF_HEIGHT)} :
         tdraw' = [tdraw EXCEPT !.done = TRUE, !.lines = r.lines,
                                !.area_top = TextY(tdraw.page_number),
                                !.area_height = HALF_HEIGHT,
                                !.start_y = r.start_y,
                                !.line_height = r.line_height]

InitText ==
    /\ IdleEarlier
    /\ IdleEdgeMask /\ IdleRetry /\ IdleBook
    /\ tdraw \in [page_number : 1..MaxPages, text : StoryTexts, done : {FALSE},
                  lines : {<<>>}, area_top : {0}, area_height : {0},
                  start_y : {0}, line_height : {0}]

NextText ==
    CallDrawCenteredText
        /\ UNCHANGED <<coreVars, earlierVars, edgeMask, retry, book>>

SpecText == InitText /\ [][NextText]_vars

(***************************************************************************)
(* The pixels of a decorative mask.  The mask starts all 255 and every     *)
(* edge function clears, in each column x it visits, one vertical line     *)
(* between the cut row and the cut edge; the fills with 255 that the       *)
(* scallop and the zigzag function make first leave the new mask as it     *)
(* is.  A mask is the function from its columns to the rows cleared.       *)
(* The sine of the wave edge is tabulated for the page width: SineSteps[j  *)
(* + 1] is the least q in 0..PAGE_WIDTH with                               *)
(* WAVE_HEIGHT * sin(2 * pi * q / (4 * PAGE_WIDTH)) >= j.  All integer     *)
(* results agree with the double-precision ones of the code at page size.  *)
(***************************************************************************)
SineSteps ==
    <<0, 48, 96, 144, 192, 241, 290, 339, 389, 440, 492, 544, 598, 653, 710, 769,
      829, 893, 960, 1031, 1107, 1191, 1285, 1395, 1537, 1875>>

\* floor of math.sin(progress) * wave_height, where progress is q quarters
\* of a page width into the period
WaveOffset(q) ==
    LET Floor(p) == CHOOSE j \in 0..WAVE_HEIGHT :
                        /\ SineSteps[j + 1] <= p
                        /\ j < WAVE_HEIGHT => SineSteps[j + 2] > p
        Ceil(p) == IF p = 0 \/ p = PAGE_WIDTH THEN Floor(p) ELSE Floor(p) + 1
        r == q % (4 * PAGE_WIDTH)
    IN  IF r <= PAGE_WIDTH THEN Floor(r)
        ELSE IF r <= 2 * PAGE_WIDTH THEN Floor(2 * PAGE_WIDTH - r)
        ELSE IF r <= 3 * PAGE_WIDTH THEN -Ceil(r - 2 * PAGE_WIDTH)
        ELSE -Ceil(4 * PAGE_WIDTH - r)

\* the line of column x drawn from the top whichever side is cut
WaveEdgeLine_FromTop(x, width, height, wave_height, wave_count, at_top) ==
    IF at_top THEN <<0, wave_height + WaveOffset(-(4 * x * wave_count))>>
    ELSE <<0, height - wave_height + WaveOffset(4 * x * wave_count)>>

\* _draw_wave_edge, column x: the end points of the line drawn
WaveEdgeLine(x, width, height, wave_height, wave_count, at_top) ==
    IF at_top THEN <<0, wave_height + WaveOffset(-(4 * x * wave_count))>>
    ELSE <<height - wave_height + WaveOffset(4 * x * wave_count), height>>

\* int(math.sqrt(n)), searched between lo and hi
RECURSIVE ISqrt(_, _, _)
ISqrt(n, lo, hi) ==
    IF lo >= hi THEN lo
    ELSE LET mid == (lo + hi + 1) \div 2
         IN  IF mid * mid <= n THEN ISqrt(n, mid, hi) ELSE ISqrt(n, lo, mid - 1)

\* _draw_scallop_edge, column x
ScallopEdgeLine(x, width, height, wave_height, wave_count, at_top) ==
    LET scallop_width == width \div wave_count
        scallop_radius == scallop_width \div 2
        scallop_index == x \div scallop_width
        center_x == scallop_index * scallop_width + scallop_radius
        center_y == IF at_top THEN scallop_radius + 10
                    ELSE height - scallop_radius - 10
        dx == IF x >= center_x THEN x - center_x ELSE center_x - x
        arc_offset == ISqrt(scallop_radius * scallop_radius - dx * dx,
                            0, scallop_radius)
        arc_y == IF dx < scallop_radius
                 THEN (IF at_top THEN center_y - arc_offset ELSE center_y + arc_offset)
                 ELSE center_y
    IN  IF at_top THEN <<0, arc_y>> ELSE <<arc_y, height>>

\* _draw_zigzag_edge, column x: no line in the columns right of the last tooth
ZigzagEdgeLine(x, width, height, wave_height, wave_count, at_top) ==
    LET tooth_width == width \div (wave_count * 2)
    IN  IF tooth_width = 0 \/ x >= wave_count * 2 * tooth_width THEN <<>>
        ELSE LET i == x \div tooth_width
                 x1 == i * tooth_width
                 y1 == IF at_top THEN (IF i % 2 = 0 THEN wave_height ELSE 0)
                       ELSE (IF i % 2 = 0 THEN height - wave_height ELSE height)
                 y2 == IF at_top THEN (IF i % 2 = 0 THEN 0 ELSE wave_height)
                       ELSE (IF i % 2 = 0 THEN height ELSE height - wave_height)
                 y == (y1 * tooth_width + (y2 - y1) * (x - x1)) \div tooth_width
             IN  IF at_top THEN <<0, y>> ELSE <<y, height>>

\* draw.line([(x, a), (x, b)], fill=0) on a mask of the given height: the
\* rows lo..hi cleared, none when lo > hi
ClearedRows(line, height) ==
    IF line = <<>> THEN [lo |-> 0, hi |-> -1]
    ELSE [lo |-> Max2(0, Min2(line[1], line[2])),
          hi |-> Min2(height - 1, Max2(line[1], line[2]))]

\* draw_func(draw, width, height, WAVE_HEIGHT, wave_count, at_top)
DrawEdge(width, height, edge_type, wave_count, at_top) ==
    [x \in 0..(width - 1) |->
        ClearedRows(
            CASE edge_type = "scallop" ->
                     ScallopEdgeLine(x, width, height, WAVE_HEIGHT, wave_count, at_top)
              [] edge_type = "zigzag" ->
                     ZigzagEdgeLine(x, width, height, WAVE_HEIGHT, wave_count, at_top)
              [] OTHER ->
                     WaveEdgeLine(x, width, height, WAVE_HEIGHT, wave_count, at_top),
            height)]

\* mask.getpixel((x, y))
MaskPixel(columns, x, y) ==
    IF columns[x].lo <= y /\ y <= columns[x].hi THEN 0 ELSE 255

(***************************************************************************)
(* create_decorative_mask called at page size, up to MaxCalls times with   *)
(* the same arguments; between two of these calls the program may make     *)
(* another call that draws from the generator.  With wave_count set, the   *)
(* edge function is instead called once on a new mask with that count.     *)
(***************************************************************************)
WaveCountArgs == 2..10

\* the generator just after random.seed
SeededGeneratorStates == {[seed |-> s, pos |-> 0] : s \in 0..(Len(MTTop4) - 1)}

CallEdgeFunction ==
    /\ edgeMask.wave_count # 0 /\ edgeMask.calls = <<>>
    /\ \E columns \in {DrawEdge(edgeMask.width, edgeMask.height, edgeMask.edge_type,
                                edgeMask.wave_count, edgeMask.at_top)} :
         edgeMask' = [edgeMask EXCEPT
                         !.calls = <<[wave_count |-> edgeMask.wave_count,
                                      columns |-> columns]>>]
    /\ UNCHANGED rng

CallCreatePageMask ==
    /\ edgeMask.wave_count = 0
    /\ Len(edgeMask.calls) < MaxCalls
    /\ \E m \in {CreateDecorativeMask(rng, edgeMask.width, edgeMask.height,
                                      edgeMask.edge_type, edgeMask.at_top)} :
         /\ rng' = m.rng
         /\ \E columns \in {DrawEdge(m.width, m.height, m.edge_type,
                                     m.wave_count, m.at_top)} :
              edgeMask' = [edgeMask EXCEPT
                              !.calls = Append(@, [wave_count |-> m.wave_count,
                                                   columns |-> columns])]

\* another call of create_decorative_mask, for a cut at the bottom
OtherCallDraws ==
    /\ Len(edgeMask.calls) >= 1 /\ Len(edgeMask.calls) < MaxCalls
    /\ edgeMask.between < Len(edgeMask.calls)
    /\ rng' = CreateDecorativeMask(rng, PAGE_WIDTH, HALF_HEIGHT, "wave", FALSE).rng
    /\ edgeMask' = [edgeMask EXCEPT !.between = @ + 1]

InitMask ==
    /\ IdleMain /\ IdleSeen /\ IdlePar /\ IdleColor /\ IdleWrap
    /\ lastPage = NoPage
    /\ IdleGrad /\ IdleDeco /\ IdleCrop /\ IdlePdf /\ IdlePipe /\ IdleSaving
    /\ IdleWashPair /\ IdleTextDraw /\ IdleRetry /\ IdleBook
    /\ rng \in SeededGeneratorStates
    /\ edgeMask \in [edge_type : EdgeTypeArgs, at_top : BOOLEAN, width : {PAGE_WIDTH},
                     height : {HALF_HEIGHT}, wave_count : {0} \cup WaveCountArgs,
                     calls : {<<>>}, between : {0}]
    /\ edgeMask.wave_count # 0 => rng.seed = 0

idleInMask ==
    <<mainVars, lastPage, seenVars, parVars, colorVars, wrapVars, earlierVars, tdraw,
      retry, book>>

NextMask ==
    \/ CallEdgeFunction /\ UNCHANGED idleInMask
    \/ CallCreatePageMask /\ UNCHANGED idleInMask
    \/ OtherCallDraws /\ UNCHANGED idleInMask

SpecMask == InitMask /\ [][NextMask]_vars

(***************************************************************************)
(* generate_image: _generate_single_image for the portrait file, a pause,  *)
(* _generate_single_image for the landscape file, a pause.  Each call of   *)
(* _download_image returns True, returns False after a request error, or   *)
(* lets another exception (of open or write) pass; requests.get is called  *)
(* with a timeout, so each call ends.  retry.calls holds, per call of      *)
(* _generate_single_image, the log of its attempts and sleeps and its      *)
(* result.                                                                 *)
(***************************************************************************)
Attempt(n, outcome) == [kind |-> "attempt", n |-> n, outcome |-> outcome]
Slept(seconds) == [kind |-> "sleep", n |-> seconds, outcome |-> "none"]

\* the pause that does not grow with the attempt
WaitTime_Fixed(attempt) == 5

\* wait_time = attempt * 5
WaitTime(attempt) == attempt * 5

Logged(event, result) ==
    [retry.calls EXCEPT ![Len(retry.calls)] =
        [log |-> Append(@.log, event), result |-> result]]

\* _download_image returns True: return True
DownloadSucceeds ==
    /\ retry.pc = "loop" /\ retry.attempt <= retry.max_retries
    /\ retry' = [retry EXCEPT !.pc = "returned",
                              !.calls = Logged(Attempt(retry.attempt, "ok"), "True")]

\* _download_image catches requests.RequestException and returns False
DownloadFails ==
    /\ retry.pc = "loop" /\ retry.attempt <= retry.max_retries
    /\ retry' = [retry EXCEPT
                    !.pc = IF retry.attempt < retry.max_retries THEN "sleep" ELSE "loop",
                    !.attempt = IF retry.attempt < retry.max_retries THEN @ ELSE @ + 1,
                    !.calls = Logged(Attempt(retry.attempt, "request_error"),
                                     "running")]

\* an exception that is no RequestException leaves _generate_single_image
DownloadRaises ==
    /\ retry.pc = "loop" /\ retry.attempt <= retry.max_retries
    /\ retry' = [retry EXCEPT !.pc = "raised",
                              !.calls = Logged(Attempt(retry.attempt, "raise"), "raised")]

\* time.sleep(wait_time) returns and the loop goes on
SleepReturns ==
    /\ retry.pc = "sleep"
    /\ retry' = [retry EXCEPT !.pc = "loop", !.attempt = @ + 1,
                              !.calls = Logged(Slept(WaitTime(retry.attempt)),
                                               "running")]

\* the loop is exhausted: return False
LoopExhausted ==
    /\ retry.pc = "loop" /\ retry.attempt > retry.max_retries
    /\ retry' = [retry EXCEPT
                    !.pc = "returned",
                    !.calls = [@ EXCEPT ![Len(@)] = [@ EXCEPT !.result = "False"]]]

\* time.sleep(INTER_REQUEST_DELAY), then the landscape call;
\* time.sleep(POST_GENERATION_DELAY), then return True
DelayReturns ==
    /\ retry.pc = "returned"
    /\ retry' = IF Len(retry.calls) = 1
                THEN [retry EXCEPT !.pc = "loop", !.attempt = 1,
                                   !.calls = Append(@, [log |-> <<>>,
                                                        result |-> "running"])]
                ELSE [retry EXCEPT !.pc = "done"]

InitRetry ==
    /\ IdleEarlier
    /\ IdleTextDraw /\ IdleEdgeMask /\ IdleBook
    /\ retry \in [max_retries : 0..MaxRetries, pc : {"loop"}, attempt : {1},
                  calls : {<<[log |-> <<>>, result |-> "running"]>>}]

idleInRetry == <<coreVars, earlierVars, tdraw, edgeMask, book>>

NextRetry ==
    \/ DownloadSucceeds /\ UNCHANGED idleInRetry
    \/ DownloadFails /\ UNCHANGED idleInRetry
    \/ DownloadRaises /\ UNCHANGED idleInRetry
    \/ SleepReturns /\ UNCHANGED idleInRetry
    \/ LoopExhausted /\ UNCHANGED idleInRetry
    \/ DelayReturns /\ UNCHANGED idleInRetry

SpecRetry == InitRetry /\ [][NextRetry]_vars

\* the interpreter keeps running the one thread of the script, and every
\* download and every sleep returns
FairSpecRetry == SpecRetry /\ WF_vars(NextRetry)

(***************************************************************************)
(* Runs of generate_page.py one after another, each with its own           *)
(* story.json, followed by create_pdf.py.  main creates pages/ if it is    *)
(* missing and never empties it, so `written` keeps the bitmaps of the     *)
(* earlier runs; a bitmap saved again replaces the one of the same name.   *)
(***************************************************************************)
\* the names os.listdir("pages") returns
PagesListing == {written[i].name : i \in 1..Len(written)}

\* a new process runs main with another story.json
NextRun ==
    /\ pc \in {"done", "aborted"} /\ ~pdf.done
    /\ Len(SelectSeq(written, LAMBDA w : w.name = CoverPageName)) < MaxRuns
    /\ pc' = "start"
    /\ storyDoc' \in StoryDocs
    /\ pageIdx' = 0
    /\ lastPage' = NoPage
    /\ rng' \in InitialRngStates
    /\ UNCHANGED written

\* create_pdf.py run after the latest run of main
AssemblePdf ==
    /\ pc \in {"done", "aborted"} /\ ~pdf.done
    /\ \E page_files \in {Sorted({f \in PagesListing : EndsWith(f, PngSuffix)})} :
         IF ~storyDoc.exists \/ page_files = <<>>
         THEN pdf' = [pdf EXCEPT !.story_json = storyDoc.exists, !.pages_dir = TRUE,
                                 !.listing = PagesListing,
                                 !.done = TRUE, !.outcome = "FileNotFoundError"]
         ELSE \E sep \in {Separate(page_files)} :
                  pdf' = [pdf EXCEPT
                             !.story_json = TRUE, !.pages_dir = TRUE,
                             !.listing = PagesListing,
                             !.done = TRUE,
                             !.outcome = "ok",
                             !.story_pdf = StoryPdf(sep.story_files),
                             !.cover_pdf = CoverPdf(sep.cover_file, sep.end_file)]
    /\ UNCHANGED <<mainVars, lastPage, rng>>

InitRerun ==
    /\ pc = "start"
    /\ storyDoc \in StoryDocs
    /\ pageIdx = 0
    /\ written = <<>>
    /\ lastPage = NoPage
    /\ rng \in InitialRngStates
    /\ IdleSeen /\ IdlePar /\ IdleColor /\ IdleWrap /\ IdleLater

idleInRerun ==
    <<seenVars, parVars, colorVars, wrapVars, grad, deco, crop, pipe, saving, washPair,
      lastVars>>

NextRerun ==
    \/ MainStart /\ UNCHANGED <<idleInRerun, pdf>>
    \/ GenerateCoverPage /\ UNCHANGED <<idleInRerun, pdf>>
    \/ GenerateStoryPage /\ UNCHANGED <<idleInRerun, pdf>>
    \/ GenerateEndPage /\ UNCHANGED <<idleInRerun, pdf>>
    \/ NextRun /\ UNCHANGED <<idleInRerun, pdf>>
    \/ AssemblePdf /\ UNCHANGED idleInRerun

SpecRerun == InitRerun /\ [][NextRerun]_vars

(***************************************************************************)
(* The names of one run of generate_page.py for a story of book.pages      *)
(* pages whose assets all load, and the order create_pdf.py gives them.    *)
(* The stories are the short ones and the two longest.                     *)
(***************************************************************************)
BookLengths == {n \in 1..MaxStoryLength : n <= MaxPages \/ n >= MaxStoryLength - 1}

\* generate_cover_page: page.save(os.path.join(output_dir, "page_00_cover.png"))
SaveCoverPage ==
    /\ book.stage = "cover"
    /\ book' = [book EXCEPT !.stage = "story", !.i = 1,
                            !.names = @ \cup {CoverPageName}]

\* generate_story_page(i, ...): page.save(.../page_{i:02d}.png)
SaveStoryPage ==
    /\ book.stage = "story" /\ book.i <= book.pages
    /\ book' = [book EXCEPT !.i = @ + 1, !.names = @ \cup {StoryPageName(book.i)}]

\* generate_end_page(len(story_pages) + 1, ...)
SaveEndPage ==
    /\ book.stage = "story" /\ book.i > book.pages
    /\ book' = [book EXCEPT !.stage = "saved",
                            !.names = @ \cup {EndPageName(book.pages + 1)}]

\* create_pdf.py: the sorted listing and the story files taken from it
OrderStoryFiles ==
    /\ book.stage = "saved"
    /\ \E page_files \in {Sorted({f \in book.names : EndsWith(f, PngSuffix)})} :
         book' = [book EXCEPT !.stage = "ordered",
                              !.story_files = Separate(page_files).story_files]

InitBook ==
    /\ IdleEarlier
    /\ IdleTextDraw /\ IdleEdgeMask /\ IdleRetry
    /\ book \in [pages : BookLengths, stage : {"cover"}, i : {0}, names : {{}},
                 story_files : {<<>>}]

idleInBook == <<coreVars, earlierVars, tdraw, edgeMask, retry>>

NextBook ==
    \/ SaveCoverPage /\ UNCHANGED idleInBook
    \/ SaveStoryPage /\ UNCHANGED idleInBook
    \/ SaveEndPage /\ UNCHANGED idleInBook
    \/ OrderStoryFiles /\ UNCHANGED idleInBook

SpecBook == InitBook /\ [][NextBook]_vars

(***************************************************************************)
(* Properties.                                                             *)
(***************************************************************************)

\* C1: on every rendered story page the text area starts at HALF_HEIGHT and
\* the page number is at the bottom exactly when the page number is odd,
\* and a composited illustration is at y = 0 with the cut on its bottom
\* edge exactly when the page number is odd; even pages invert all four.
C1_LayoutByParity ==
    lastPage.outcome = "ok" =>
        LET odd == (lastPage.page_number % 2 = 1)
        IN  /\ lastPage.page_number >= 1
            /\ lastPage.text_y = (IF odd THEN HALF_HEIGHT ELSE 0)
            /\ lastPage.page_num_position = (IF odd THEN "bottom" ELSE "top")
            /\ lastPage.composited =>
                 /\ lastPage.image_y = (IF odd THEN 0 ELSE HALF_HEIGHT)
                 /\ lastPage.at_top = ~odd

C1_Witness ==
    /\ lastPage.outcome = "ok"
    /\ lastPage.composited
    /\ lastPage.page_number = 2
    /\ lastPage.image_y = HALF_HEIGHT
    /\ lastPage.text_y = 0
    /\ lastPage.at_top

\* C2: in any sequential series of renders, every render of page n uses the
\* edge style the first render of page n used, and every render of page n
\* that generates a mask uses the wave count of the first such render.
C2_Reproducible ==
    lastPage.outcome # "none" =>
        /\ lastPage.edge_type = seenEdge[lastPage.page_number]
        /\ lastPage.mask_generated =>
             lastPage.wave_count = seenWave[lastPage.page_number]

C2_Witness ==
    /\ lastPage.page_number = 1
    /\ renders[1] = 2
    /\ renders[2] >= 1
    /\ renders[3] >= 1
    /\ lastPage.mask_generated
    /\ lastPage.wave_count = seenWave[1]
    /\ lastPage.edge_type = seenEdge[1]

\* C3: a page rendered concurrently with another page ends with the edge
\* style and the wave count it gets when it is rendered alone.
C3_ParallelAsAlone ==
    \A t \in Threads :
        tpc[t] = "done" =>
            LET alone == CreateStoryPage(RandomSeed(0), tpage[t], AbsentFile,
                                         ImageFile(<<Red>>, FALSE)).page
            IN  /\ tedge[t] = alone.edge_type
                /\ twave[t] = alone.wave_count

\* C4: with story.json missing or holding zero pages, main never gets past
\* its start and no bitmap is ever written.
C4_EmptyStoryAborts ==
    (~storyDoc.exists \/ storyDoc.pages = 0) =>
        /\ written = <<>>
        /\ pc \in {"start", "aborted"}

C4_Witness ==
    /\ pc = "aborted"
    /\ storyDoc.exists
    /\ storyDoc.pages = 0
    /\ written = <<>>

\* C5: a story page whose illustration file is absent is rendered without
\* an exception, with the default light background, the default dark text
\* colour, no illustration, no mask, and with text and page number drawn.
C5_MissingIllustrationRenders ==
    (lastPage.outcome # "none" /\ lastPage.main_status = "absent") =>
        /\ lastPage.outcome = "ok"
        /\ lastPage.bg_color = DEFAULT_LIGHT_COLOR
        /\ lastPage.text_color = DEFAULT_DARK_COLOR
        /\ ~lastPage.composited
        /\ ~lastPage.mask_generated
        /\ lastPage.text_drawn
        /\ lastPage.number_drawn

\* C6: the batch aborts only for a missing or empty story document, never
\* for an asset that exists and cannot be decoded.
C6_CorruptAssetNeverAborts ==
    pc = "aborted" => (~storyDoc.exists \/ storyDoc.pages = 0)

\* C7: a run of main over a story of N >= 1 pages ends with exactly the
\* N + 2 bitmaps cover, pages 1..N, end page written in this order, under
\* pairwise distinct names, each of the page resolution.
C7_RunWritesAllPages ==
    (pc \in {"done", "aborted"} /\ storyDoc.exists /\ storyDoc.pages >= 1) =>
        LET N == storyDoc.pages
        IN  /\ Len(written) = N + 2
            /\ written[1].name = CoverPageName
            /\ \A i \in 1..N : written[i + 1].name = StoryPageName(i)
            /\ written[N + 2].name = EndPageName(N + 1)
            /\ \A i, j \in 1..Len(written) :
                 i # j => written[i].name # written[j].name
            /\ \A i \in 1..Len(written) :
                 written[i].width = PAGE_WIDTH /\ written[i].height = PAGE_HEIGHT

\* C8: get_dominant_color and get_light_color always return, no division
\* by zero is executed, and for a missing or undecodable file and for an
\* image none of whose most frequent quantized colours has a channel above
\* 50 they return (0, 0, 0) and (255, 250, 245).
C8_ExtractionTotal ==
    cres.fn \in {"dark", "light"} =>
        LET top == MostCommon(QuantizedPixels(cfile.pixels), cnum)
            unusable == \A i \in 1..Len(top) : Max3(top[i].color) <= 50
        IN  /\ cres.outcome = "return"
            /\ ~cres.div_fault
            /\ (cfile.status # "ok" \/ unusable) =>
                 cres.value = (IF cres.fn = "dark" THEN DEFAULT_DARK_COLOR
                               ELSE DEFAULT_LIGHT_COLOR)

C8_Witness ==
    /\ cres.fn = "light"
    /\ cfile.status = "ok"
    /\ Len(cfile.pixels) = 2
    /\ \A i \in 1..Len(cfile.pixels) : cfile.pixels[i] = Black
    /\ cres.value = DEFAULT_LIGHT_COLOR

\* C9: when some colour among the num_colors most frequent quantized
\* colours has max channel >= 60 and (max - min) / max >= 1/4, the shade
\* returned is the shade of such a colour whose score
\* 300 * (max - min) / max + max no other such colour exceeds.
C9_SaturationPriority ==
    LET top == MostCommon(QuantizedPixels(cfile.pixels), cnum)
        survivors == {c \in {top[i].color : i \in 1..Len(top)} :
                        Max3(c) >= 60 /\ 4 * (Max3(c) - Min3(c)) >= Max3(c)}
        scoreTimesMax(c) == 300 * (Max3(c) - Min3(c)) + Max3(c) * Max3(c)
        scoreLeq(c, d) == scoreTimesMax(c) * Max3(d) <= scoreTimesMax(d) * Max3(c)
        shade(c) == IF cres.fn = "dark" THEN DarkShade(c) ELSE LightShade(c)
    IN  (cres.fn \in {"dark", "light"} /\ cfile.status = "ok" /\ survivors # {}) =>
            \E c \in survivors :
                /\ \A d \in survivors : scoreLeq(d, c)
                /\ cres.value = shade(c)

C9_Witness ==
    /\ cres.fn = "dark"
    /\ cfile.status = "ok"
    /\ cfile.pixels = <<Grey, Grey, Red>>
    /\ cnum = 2
    /\ cres.value = <<124, 0, 0>>

\* C10: every line wrap_text returns that is wider than max_width holds no
\* blank, that is, it is one word.
C10_LinesFit ==
    wlines.done =>
        \A i \in 1..Len(wlines.lines) :
            TextWidth(wlines.lines[i]) > wmax =>
                \A j \in 1..Len(wlines.lines[i]) : wlines.lines[i][j] # " "

C10_Witness ==
    /\ wlines.done
    /\ \E i \in 1..Len(wlines.lines) : TextWidth(wlines.lines[i]) > wmax
    /\ \E i \in 1..Len(wlines.lines) :
         \E j \in 1..Len(wlines.lines[i]) : wlines.lines[i][j] = " "

\* C11 as stated: for every rectangle with width >= 1 and height >= 1 the
\* centre pixel (width // 2, height // 2) of the mask has the 8-bit value of
\* center_opacity within one step of rounding, and the farthest corner pixel
\* (0, 0) has the 8-bit value of edge_opacity.
C11_CentreAndCornerEverywhere ==
    grad.done =>
        LET centre == grad.alpha[grad.height \div 2][grad.width \div 2]
        IN  /\ centre - OpacityByte(grad.center_opacity) \in {-1, 0, 1}
            /\ grad.alpha[0][0] = OpacityByte(grad.edge_opacity)

\* C11 amended: for every rectangle with width >= 1 and height >= 1 the
\* pixel (0, 0) has the 8-bit value of edge_opacity and every pixel lies
\* between the 8-bit values of the two opacities; the centre pixel has exactly
\* the 8-bit value of center_opacity when width and height are both even,
\* and in a mask of one pixel it has the value of edge_opacity.
C11_CentreOfEvenRectangles ==
    grad.done =>
        LET centre == grad.alpha[grad.height \div 2][grad.width \div 2]
            lo == Min2(OpacityByte(grad.center_opacity), OpacityByte(grad.edge_opacity))
            hi == Max2(OpacityByte(grad.center_opacity), OpacityByte(grad.edge_opacity))
        IN  /\ grad.alpha[0][0] = OpacityByte(grad.edge_opacity)
            /\ \A y \in 0..(grad.height - 1), x \in 0..(grad.width - 1) :
                   grad.alpha[y][x] \in lo..hi
            /\ (grad.width % 2 = 0 /\ grad.height % 2 = 0) =>
                   centre = OpacityByte(grad.center_opacity)
            /\ (grad.width = 1 /\ grad.height = 1) =>
                   centre = OpacityByte(grad.edge_opacity)

C11_Witness ==
    /\ grad.done
    /\ grad.width = 4 /\ grad.height = 2
    /\ grad.center_opacity = BG_OPACITY_CENTER
    /\ grad.edge_opacity = BG_OPACITY_EDGE
    /\ grad.alpha[1][2] = 7
    /\ grad.alpha[0][0] = 38

\* C12: for every width >= 0 and height >= 0, every edge style and either
\* cut side, create_decorative_mask completes without a division fault.
C12_NoDivisionFault ==
    deco.done => deco.outcome = "ok"

\* C13: on every story page with an illustration the illustration region
\* [image_y, image_y + HALF_HEIGHT) and the text region
\* [text_y, text_y + HALF_HEIGHT) are disjoint and together cover every
\* pixel row 0 .. PAGE_HEIGHT - 1.
C13_RegionsCoverPage ==
    (lastPage.outcome = "ok" /\ lastPage.composited) =>
        LET image_rows == lastPage.image_y..(lastPage.image_y + HALF_HEIGHT - 1)
            text_rows == lastPage.text_y..(lastPage.text_y + HALF_HEIGHT - 1)
        IN  /\ image_rows \cap text_rows = {}
            /\ \A row \in 0..(lastPage.height - 1) :
                   row \in image_rows \/ row \in text_rows

\* C14: at every moment of a render run, also after the process was killed
\* in the middle of a save, every file visible under a final name
\* pages/page_*.png is a completely written bitmap.
C14_NoPartialFinalFile ==
    \A name \in DOMAIN PagesDir : PagesDir[name] = "complete"

\* the bitmaps of pages/ and the pages of the two documents, story document
\* first
C15_Bitmaps == {f \in pdf.listing : EndsWith(f, PngSuffix)}
C15_AllPages == pdf.story_pdf \o pdf.cover_pdf

\* C15 as stated: every bitmap found in pages/, cover and end page included,
\* is placed in filename-sorted order, each on its own canvas page of the
\* size of one book page.
C15_EveryBitmapOwnPageSorted ==
    (pdf.done /\ pdf.outcome = "ok") =>
        /\ \A f \in C15_Bitmaps :
               \E i \in 1..Len(C15_AllPages) :
                   /\ \A im \in C15_AllPages[i].images : im.file = f
                   /\ \E im \in C15_AllPages[i].images : im.file = f
                   /\ C15_AllPages[i].width = PDF_PAGE_WIDTH
                   /\ C15_AllPages[i].height = PDF_PAGE_HEIGHT
        /\ \A i, j \in 1..Len(C15_AllPages) :
               i < j => \A a \in C15_AllPages[i].images, b \in C15_AllPages[j].images :
                            StrLess(a.file, b.file)

\* C15 amended: the bitmaps whose name contains neither "cover" nor "end"
\* are placed in filename-sorted order, each exactly once and on its own
\* page of the book page size, in the story document; the cover document is
\* one page of twice that width holding the last bitmap named "end" (and
\* not "cover") on its left half and the last bitmap named "cover" on its
\* right half, each if there is one, and no other bitmap.
C15_StoryPagesSortedCoverSpread ==
    (pdf.done /\ pdf.outcome = "ok") =>
        LET covers == {f \in C15_Bitmaps : StrContains(f, CoverWord)}
            ends == {f \in C15_Bitmaps \ covers : StrContains(f, EndWord)}
            stories == C15_Bitmaps \ (covers \cup ends)
            spread == pdf.cover_pdf[1]
        IN  /\ Len(pdf.story_pdf) = Cardinality(stories)
            /\ \A i \in 1..Len(pdf.story_pdf) :
                   /\ pdf.story_pdf[i].width = PDF_PAGE_WIDTH
                   /\ pdf.story_pdf[i].height = PDF_PAGE_HEIGHT
                   /\ \E f \in stories :
                          pdf.story_pdf[i].images =
                              {[file |-> f, x |-> 0, width |-> PDF_PAGE_WIDTH,
                                height |-> PDF_PAGE_HEIGHT]}
            /\ \A i, j \in 1..Len(pdf.story_pdf) :
                   i < j => \A a \in pdf.story_pdf[i].images,
                               b \in pdf.story_pdf[j].images :
                                StrLess(a.file, b.file)
            /\ Len(pdf.cover_pdf) = 1
            /\ spread.width = 2 * PDF_PAGE_WIDTH /\ spread.height = PDF_PAGE_HEIGHT
            /\ \A im \in spread.images :
                   /\ im.width = PDF_PAGE_WIDTH /\ im.height = PDF_PAGE_HEIGHT
                   /\ \/ im.x = 0 /\ im.file \in ends
                         /\ \A f \in ends \ {im.file} : StrLess(f, im.file)
                      \/ im.x = PDF_PAGE_WIDTH /\ im.file \in covers
                         /\ \A f \in covers \ {im.file} : StrLess(f, im.file)
            /\ (ends # {}) => \E im \in spread.images : im.x = 0
            /\ (covers # {}) => \E im \in spread.images : im.x = PDF_PAGE_WIDTH
            /\ Cardinality(spread.images) <= 2

C15_Witness ==
    /\ pdf.done /\ pdf.outcome = "ok"
    /\ pdf.listing = {CoverPageName, StoryPageName(1), StoryPageName(2),
                      EndPageName(3), EndPageName(4), TextFileName}
    /\ Len(pdf.story_pdf) = 2
    /\ \E im \in pdf.story_pdf[1].images : im.file = StoryPageName(1)
    /\ \E im \in pdf.cover_pdf[1].images : im.file = EndPageName(4) /\ im.x = 0
    /\ \E im \in pdf.cover_pdf[1].images : im.file = CoverPageName /\ im.x = PDF_PAGE_WIDTH

\* C16: two renders of the same story page that differ only in the wash,
\* the wash being absent included, have the same light background shade and
\* the same dark text shade.
C16_ThemeIgnoresWash ==
    washPair.pages # <<>> =>
        /\ washPair.pages[1].bg_color = washPair.pages[2].bg_color
        /\ washPair.pages[1].text_color = washPair.pages[2].text_color
        /\ washPair.pages[1].outcome = washPair.pages[2].outcome

C16_Witness ==
    /\ washPair.pages # <<>>
    /\ washPair.main = ImageFile(<<Grey, Grey, Red>>, FALSE)
    /\ washPair.bg = <<AbsentFile, ImageFile(<<Teal, Red>>, TRUE)>>
    /\ ~washPair.pages[1].wash_composited
    /\ washPair.pages[2].wash_composited
    /\ washPair.pages[1].outcome = "ok"
    /\ washPair.pages[2].bg_color # DEFAULT_LIGHT_COLOR

\* C17: for a story of N pages whose downloads all succeed, every image path
\* the page composer reads is one of the paths the image generator wrote
\* for the same N.
C17_ComposerReadsWhatGeneratorWrote ==
    ~pipe.failed => pipe.reads \subseteq pipe.images

C17_Witness ==
    /\ pipe.stage = "done" /\ ~pipe.failed /\ pipe.prompts = 2
    /\ Cardinality(pipe.reads) = 6
    /\ Cardinality(pipe.images) = 8
    /\ ImagesDir \o EndPageName(3) \in pipe.images \ pipe.reads

\* C18: the wave count of create_decorative_mask is in 2..10 when the cut
\* is on the bottom edge and is the constant 8 when it is on the top edge;
\* so every even story page uses wave count 8, every odd story page a wave
\* count in 2..10, and the wave count is never 0.
C18_WaveCountRange ==
    deco.done =>
        /\ deco.wave_count # 0
        /\ ~deco.at_top => deco.wave_count \in 2..10
        /\ deco.at_top => deco.wave_count = 8
        /\ (deco.page_number >= 1 /\ deco.page_number % 2 = 0) =>
               deco.wave_count = 8
        /\ (deco.page_number >= 1 /\ deco.page_number % 2 = 1) =>
               deco.wave_count \in 2..10

C18_Witness ==
    /\ deco.done /\ deco.outcome = "ok"
    /\ deco.page_number = 1 /\ ~deco.at_top
    /\ deco.wave_count = 3

\* the colours that survive the extraction of the file in hand, best score
\* first
C19_Colors == ExtractQuantizedColors(cfile, cnum).colors

C20_CoverFit ==
    crop.done =>
        /\ crop.result.out_width = crop.target_width
        /\ crop.result.out_height = crop.target_height
        /\ crop.result.new_width >= crop.target_width
        /\ crop.result.new_height >= crop.target_height
        /\ crop.result.left >= 0 /\ crop.result.top >= 0
        /\ crop.result.right <= crop.result.new_width
        /\ crop.result.bottom <= crop.result.new_height

\* C21: the block of text that draw_centered_text draws for a story page,
\* Len(lines) * line_height rows starting at
\* area_top + (area_height - Len(lines) * line_height) // 2, lies entirely
\* inside the text area [area_top, area_top + area_height).
C21_TextBlockInsideArea ==
    tdraw.done =>
        /\ tdraw.start_y >= tdraw.area_top
        /\ tdraw.start_y + Len(tdraw.lines) * tdraw.line_height
               <= tdraw.area_top + tdraw.area_height

\* the rows of column x at which the pixels of a mask can change value: the
\* first and the last row and the rows at and next to the ends of the
\* cleared line
ProbeRows(call, x) ==
    {y \in {0, edgeMask.height - 1, call.columns[x].lo - 1, call.columns[x].lo,
            call.columns[x].hi, call.columns[x].hi + 1} :
        0 <= y /\ y < edgeMask.height}

\* C23: a page-sized mask returned by create_decorative_mask has exactly
\* the requested size, every pixel is 0 or 255, the row opposite the cut is
\* entirely 255, and the kept pixels of each column are one contiguous run
\* that starts at the uncut edge.
C23_MaskShape ==
    \A c \in 1..Len(edgeMask.calls) :
        LET call == edgeMask.calls[c]
            uncut == IF edgeMask.at_top THEN edgeMask.height - 1 ELSE 0
        IN  /\ DOMAIN call.columns = 0..(edgeMask.width - 1)
            /\ \A x \in DOMAIN call.columns :
                 /\ call.columns[x].hi <= edgeMask.height - 1
                 /\ MaskPixel(call.columns, x, uncut) = 255
                 /\ \A y \in ProbeRows(call, x) :
                      /\ MaskPixel(call.columns, x, y) \in {0, 255}
                      /\ MaskPixel(call.columns, x, y) = 255 =>
                           \A z \in ProbeRows(call, x) :
                               (IF edgeMask.at_top THEN z >= y ELSE z <= y) =>
                                   MaskPixel(call.columns, x, z) = 255

C23_Witness ==
    /\ Len(edgeMask.calls) = 2 /\ edgeMask.wave_count = 0
    /\ edgeMask.edge_type = "scallop" /\ ~edgeMask.at_top
    /\ edgeMask.calls[1].wave_count = 5 /\ edgeMask.between = 0
    /\ edgeMask.calls[2].wave_count = 10
    /\ MaskPixel(edgeMask.calls[2].columns, 0, edgeMask.height - 1) = 0
    /\ MaskPixel(edgeMask.calls[2].columns, 93, edgeMask.height - 11) = 255
    /\ MaskPixel(edgeMask.calls[2].columns, 93, edgeMask.height - 10) = 0

\* C22: any two calls of create_decorative_mask with equal (width, height,
\* edge_type, at_top) return identical masks, whatever other calls were
\* made before or between them.
C22_MaskFunctionOfArguments ==
    \A c, d \in 1..Len(edgeMask.calls) :
        \A x \in 0..(edgeMask.width - 1) :
            edgeMask.calls[c].columns[x] = edgeMask.calls[d].columns[x]

\* the attempts of a log, in order
AttemptsOf(log) == SelectSeq(log, LAMBDA ev : ev.kind = "attempt")

\* C24, the part about states: in every call of _generate_single_image the
\* attempts are numbered 1, 2, ... and are at most max_retries; a
\* successful attempt is the last event and the call returns True exactly
\* then; it returns False exactly when max_retries attempts failed with a
\* request error; and a sleep of attempt * 5 seconds follows the failed
\* attempt `attempt` exactly when that attempt is not the last allowed one.
C24_RetryLog ==
    \A c \in 1..Len(retry.calls) :
        LET call == retry.calls[c]
            log == call.log
            attempts == AttemptsOf(log)
        IN  /\ Len(attempts) <= retry.max_retries
            /\ \A i \in 1..Len(attempts) : attempts[i].n = i
            /\ \A i \in 1..Len(log) :
                 /\ (log[i].kind = "attempt" /\ log[i].outcome = "ok") => i = Len(log)
                 /\ log[i].kind = "sleep" =>
                      /\ i > 1 /\ log[i - 1].kind = "attempt"
                      /\ log[i - 1].outcome = "request_error"
                      /\ log[i - 1].n < retry.max_retries
                      /\ log[i].n = log[i - 1].n * 5
                 /\ (log[i].kind = "attempt" /\ i > 1) => log[i - 1].kind = "sleep"
            /\ call.result = "True" <=>
                 (log # <<>> /\ log[Len(log)].outcome = "ok")
            /\ call.result = "False" <=>
                 /\ Len(attempts) = retry.max_retries
                 /\ \A i \in 1..Len(attempts) : attempts[i].outcome = "request_error"
                 /\ (c < Len(retry.calls) \/ retry.pc \in {"returned", "done"})
            /\ call.result = "False" =>
                 (log = <<>> \/ log[Len(log)].kind = "attempt")

\* C24: the retry loop of _generate_single_image keeps to its log
\* discipline (C24_RetryLog) and every call of it ends: generate_image
\* returns or an exception leaves it.
C24_RetryLoop ==
    /\ []C24_RetryLog
    /\ <>(retry.pc \in {"done", "raised"})

C24_Witness ==
    /\ retry.pc = "done" /\ retry.max_retries = 3
    /\ retry.calls[1].result = "False"
    /\ retry.calls[1].log = <<Attempt(1, "request_error"), Slept(5),
                               Attempt(2, "request_error"), Slept(10),
                               Attempt(3, "request_error")>>
    /\ retry.calls[2].result = "True"
    /\ Len(retry.calls[2].log) = 3

\* the words of some lines, read line by line
RECURSIVE WordsOfLines(_)
WordsOfLines(lines) ==
    IF lines = <<>> THEN <<>> ELSE Split(Head(lines)) \o WordsOfLines(Tail(lines))

\* C25: the words of the lines wrap_text returns, read line by line, are
\* the whitespace-separated words of the text in their order; no returned
\* line is empty, and a text with no words yields zero lines.
C25_WordsKept ==
    wlines.done =>
        /\ WordsOfLines(wlines.lines) = Split(wtext)
        /\ \A i \in 1..Len(wlines.lines) : wlines.lines[i] # <<>>
        /\ Split(wtext) = <<>> => wlines.lines = <<>>

C25_Witness ==
    /\ wlines.done
    /\ Len(wtext) = MaxTextLen /\ wtext[1] = " " /\ wtext[3] = " "
    /\ Len(wlines.lines) = 2
    /\ Len(Split(wtext)) = 2

\* C26: after runs of generate_page.py with stories of differing length
\* and then create_pdf.py, the story document holds exactly the story
\* pages 1..N of the most recent story, one per page, and the cover spread
\* uses the end page of the most recent run.
C26_OnlyLatestStory ==
    (pdf.done /\ pdf.outcome = "ok" /\ pc = "done") =>
        /\ Len(pdf.story_pdf) = storyDoc.pages
        /\ \A n \in 1..Len(pdf.story_pdf) :
             \A img \in pdf.story_pdf[n].images : img.file = StoryPageName(n)
        /\ \A img \in pdf.cover_pdf[1].images :
             img.x = 0 => img.file = EndPageName(storyDoc.pages + 1)

\* the i-th file generate_images.main is to attempt for n prompts: for the
\* cover, the story pages 1..n and the end page in this order, portrait
\* then landscape
ExpectedAttempt(i, n) ==
    IF i % 2 = 1 THEN PortraitFile(GeneratorTarget((i - 1) \div 2, n))
    ELSE LandscapeFile(GeneratorTarget((i - 2) \div 2, n))

\* C27: a download whose every retry fails does not abort
\* generate_images.main: with at least one prompt the run attempts, in
\* order, the cover, every story page (portrait then landscape) and the end
\* page, and the file of a failed download is absent afterwards.
C27_DegradesPerImage ==
    pipe.prompts >= 1 =>
        /\ pipe.stage # "aborted"
        /\ \A i \in 1..Len(pipe.attempts) :
             /\ i <= 2 * (pipe.prompts + 2)
             /\ pipe.attempts[i].file = ExpectedAttempt(i, pipe.prompts)
             /\ ~pipe.attempts[i].ok => pipe.attempts[i].file \notin pipe.images
        /\ pipe.stage \in {"compose", "done"} =>
             Len(pipe.attempts) = 2 * (pipe.prompts + 2)

C27_Witness ==
    /\ pipe.stage = "compose" /\ pipe.prompts = 2
    /\ ~pipe.attempts[1].ok /\ ~pipe.attempts[2].ok /\ ~pipe.attempts[4].ok
    /\ pipe.attempts[3].ok /\ pipe.attempts[8].ok
    /\ Len(pipe.attempts) = 8
    /\ Cardinality(pipe.images) = 5

\* C28: for every story length N >= 1, N >= 100 included, the story files
\* that create_pdf.py takes from the sorted listing are the bitmaps of the
\* story pages 1..N in ascending page-number order.
C28_PageNumberOrder ==
    book.stage = "ordered" =>
        /\ Len(book.story_files) = book.pages
        /\ \A n \in 1..Len(book.story_files) : book.story_files[n] = StoryPageName(n)

====
